---- MODULE Spec2Model ----
(***************************************************************************)
(* Batch aggregation of per-file video conversions into one DITA project   *)
(* (video_plugin/ui/launcher.py), together with the single-file converter  *)
(* it calls (video_plugin/services/video_handler.py, dita_builder.py).     *)
(*                                                                         *)
(* Strings are sequences of one-character strings, so that splitext,       *)
(* basename, stem, split and join are computed as the code computes them.  *)
(***************************************************************************)
EXTENDS Integers, Sequences, FiniteSets, TLC

(* ------------------------------------------------------------------ *)
(* Bounds                                                               *)
(* ------------------------------------------------------------------ *)
MaxFiles == 3

(* ------------------------------------------------------------------ *)
(* Characters and string helpers                                        *)
(* ------------------------------------------------------------------ *)
Letters == {"a", "b", "c", "d", "e", "i", "k", "m", "o", "p", "s", "t", "v", "w", "x",
            "A", "M", "P"}
Digits == {"0", "1", "2", "3", "4", "5", "6", "7", "8", "9"}
SepChars == {" ", "-", "_", "."}

(* str.lower() on one character *)
Lower(c) == CASE c = "A" -> "a" [] c = "M" -> "m" [] c = "P" -> "p" [] OTHER -> c

isalpha(c) == c \in Letters
isalnum(c) == c \in Letters \cup Digits

DigitChar == <<"0", "1", "2", "3", "4", "5", "6", "7", "8", "9">>

RECURSIVE IntToStr(_)
IntToStr(i) ==
    IF i < 10 THEN <<DigitChar[i + 1]>>
    ELSE IntToStr(i \div 10) \o <<DigitChar[(i % 10) + 1]>>

(* index of the last occurrence of c in s, 0 when absent (str.rfind + 1) *)
RFind(s, c) ==
    LET hits == {k \in 1..Len(s) : s[k] = c}
    IN IF hits = {} THEN 0 ELSE CHOOSE k \in hits : \A j \in hits : j <= k

Prefix(s, n) == SubSeq(s, 1, n)
Suffix(s, n) == SubSeq(s, n, Len(s))

(* variant: the directory part is kept *)
basename_keeps_dir(p) == p

(* os.path.basename on a '/'-separated string *)
basename(p) == Suffix(p, RFind(p, "/") + 1)

(* os.path.splitext: the extension starts at the last dot, unless that dot *)
(* belongs to the run of leading dots of the last path component          *)
splitext(p) ==
    LET sepIndex == RFind(p, "/")
        dotIndex == RFind(p, ".")
    IN IF dotIndex > sepIndex
          /\ \E k \in (sepIndex + 1)..(dotIndex - 1) : p[k] # "."
       THEN <<Prefix(p, dotIndex - 1), Suffix(p, dotIndex)>>
       ELSE <<p, <<>>>>

(* pathlib PurePath.suffix / PurePath.stem of a file name *)
path_suffix(name) ==
    LET i == RFind(name, ".")
    IN IF 1 < i /\ i < Len(name) THEN Suffix(name, i) ELSE <<>>

path_stem(name) ==
    LET i == RFind(name, ".")
    IN IF 1 < i /\ i < Len(name) THEN Prefix(name, i - 1) ELSE name

RECURSIVE Join(_, _)
Join(parts, sep) ==
    IF parts = <<>> THEN <<>>
    ELSE IF Len(parts) = 1 THEN parts[1]
    ELSE parts[1] \o <<sep>> \o Join(Tail(parts), sep)

(* [p for p in s.split(sep) if p] *)
RECURSIVE SplitNonEmpty(_, _, _)
SplitNonEmpty(s, sep, cur) ==
    IF s = <<>> THEN (IF cur = <<>> THEN <<>> ELSE <<cur>>)
    ELSE IF Head(s) = sep
         THEN (IF cur = <<>> THEN <<>> ELSE <<cur>>) \o SplitNonEmpty(Tail(s), sep, <<>>)
         ELSE SplitNonEmpty(Tail(s), sep, Append(cur, Head(s)))

(* dict[key] = value *)
Put(d, k, v) == [x \in (DOMAIN d) \cup {k} |-> IF x = k THEN v ELSE d[x]]

EmptyDict == <<>>

(* ------------------------------------------------------------------ *)
(* Single-file converter: video_handler.py, dita_builder.py             *)
(* ------------------------------------------------------------------ *)
ext_mp4 == <<".", "m", "p", "4">>
ext_avi == <<".", "a", "v", "i">>
ext_mov == <<".", "m", "o", "v">>
ext_wmv == <<".", "w", "m", "v">>
ext_webm == <<".", "w", "e", "b", "m">>
ext_mkv == <<".", "m", "k", "v">>
ext_dita == <<".", "d", "i", "t", "a">>
ext_txt == <<".", "t", "x", "t">>

supported_extensions == {ext_mp4, ext_avi, ext_mov, ext_wmv, ext_webm, ext_mkv}

LowerStr(s) == [k \in 1..Len(s) |-> Lower(s[k])]

(* variant: the extension is compared as it is written *)
can_handle_case_sensitive(f) ==
    /\ f.exists
    /\ path_suffix(f.name) \in supported_extensions

(* VideoDocumentHandler.can_handle *)
can_handle(f) ==
    /\ f.exists
    /\ LowerStr(path_suffix(f.name)) \in supported_extensions

(* the element of a one-element set: {e(x) : x \in {v}} computes v once *)
Once(S) == CHOOSE r \in S : TRUE

(* the per-character loop of _generate_topic_id *)

RECURSIVE CleanChars(_)
CleanChars(s) ==
    IF s = <<>> THEN <<>>
    ELSE LET c == Head(s)
         IN (IF isalnum(c) THEN <<c>>
             ELSE IF c \in SepChars THEN <<"-">>
             ELSE <<>>) \o CleanChars(Tail(s))

HasDoubleHyphen(s) == \E k \in 1..(Len(s) - 1) : s[k] = "-" /\ s[k + 1] = "-"

(* str.replace("--", "-"): one left-to-right pass over non-overlapping matches *)
RECURSIVE ReplaceDoubleHyphen(_)
ReplaceDoubleHyphen(s) ==
    IF Len(s) < 2 THEN s
    ELSE IF s[1] = "-" /\ s[2] = "-"
         THEN <<"-">> \o ReplaceDoubleHyphen(SubSeq(s, 3, Len(s)))
         ELSE <<s[1]>> \o ReplaceDoubleHyphen(Tail(s))

RECURSIVE CollapseHyphens(_)
CollapseHyphens(s) ==
    Once({IF HasDoubleHyphen(t)
          THEN CollapseHyphens(ReplaceDoubleHyphen(t)) ELSE t : t \in {s}})

RECURSIVE LStrip(_, _)
LStrip(s, c) == IF s # <<>> /\ Head(s) = c THEN LStrip(Tail(s), c) ELSE s

RECURSIVE RStrip(_, _)
RStrip(s, c) ==
    IF s # <<>> /\ s[Len(s)] = c THEN RStrip(Prefix(s, Len(s) - 1), c) ELSE s

Strip(s, c) == RStrip(LStrip(s, c), c)

MaxIdLen == 50
video_prefix == <<"v", "i", "d", "e", "o", "-">>

(* _generate_topic_id after the hyphens are collapsed: raised is TRUE    *)
(* when topic_id[0] is evaluated on an empty string (IndexError)         *)
topic_id_from(cleaned) ==
    IF cleaned = <<>> THEN [raised |-> TRUE, id |-> <<>>]
    ELSE LET started == IF isalpha(cleaned[1]) THEN cleaned
                        ELSE video_prefix \o cleaned
             limited == IF Len(started) > MaxIdLen
                        THEN Prefix(started, MaxIdLen) ELSE started
         IN [raised |-> FALSE, id |-> Strip(limited, "-")]

(* VideoDitaBuilder._generate_topic_id *)
generate_topic_id(filename) ==
    Once({topic_id_from(cleaned) :
              cleaned \in {CollapseHyphens(CleanChars(LowerStr(path_stem(filename))))}})

(* VideoDitaBuilder._get_video_media_filename *)
get_video_media_filename(original_filename, preserve) ==
    IF preserve THEN original_filename
    ELSE generate_topic_id(original_filename).id \o path_suffix(original_filename)

topics_dir == <<"t", "o", "p", "i", "c", "s", "/">>
media_dir == <<".", ".", "/", "m", "e", "d", "i", "a", "/">>

FilePath(f) == <<f.dir, f.name>>

(* variant: the object always names the original file *)
add_video_element_original(filename, preserve) == media_dir \o filename

(* VideoDitaBuilder._add_video_element: the data attribute of the object *)
add_video_element(filename, preserve) ==
    media_dir \o get_video_media_filename(filename, preserve)

(* VideoDitaBuilder._create_ditamap: the topicref children of the map *)
create_ditamap(topic_filename) == <<[href |-> topics_dir \o topic_filename]>>

(* create_dita_context once the topic id is known *)
context_of(f, preserve, topic_id) ==
    LET topic_filename == topic_id \o ext_dita
        video_filename == get_video_media_filename(f.name, preserve)
        topic_element == [id |-> topic_id,
                          title |-> path_stem(f.name),
                          data |-> add_video_element(f.name, preserve)]
    IN [topics |-> <<[name |-> topic_filename, el |-> topic_element]>>,
        images |-> <<>>,
        videos |-> <<[name |-> video_filename, blob |-> FilePath(f)]>>,
        video_info_map |-> <<>>,
        topicrefs |-> create_ditamap(topic_filename),
        metadata |-> [title |-> path_stem(f.name),
                      source_file |-> f.name,
                      manual_title |-> "VIDEO-LIBRARY",
                      revision_date |-> "today"]]

(* VideoDitaBuilder.create_dita_context for a file whose topic id exists *)
create_dita_context(f, preserve) ==
    Once({context_of(f, preserve, topic_id) :
              topic_id \in {generate_topic_id(f.name).id}})

(* a handler result that carries per-video metadata for the panel        *)
(* tooltips: one video_info_map entry keyed by the media filename        *)
with_video_info(ctx, f) ==
    IF f.info
    THEN [ctx EXCEPT !.video_info_map =
              <<[k |-> ctx.videos[1].name, v |-> FilePath(f)]>>]
    ELSE ctx

(* the default of max_file_size_mb *)
max_file_size_mb == 500

(* VideoDocumentHandler.validate_video_constraints: raises ValueError    *)
(* for a file above the limit; no code calls it                          *)
validate_video_constraints(f) == [raised |-> f.size_mb > max_file_size_mb]

(* VideoDocumentHandler.convert_to_dita: either a context or the raised   *)
(* exception "Failed to convert video <path>: <cause>"                   *)
convert_to_dita(f, preserve) ==
    IF ~f.exists
    THEN [raised |-> TRUE, wrapped |-> FALSE, path |-> FilePath(f),
          cause |-> "FileNotFound"]
    ELSE IF ~f.readable
    THEN [raised |-> TRUE, wrapped |-> TRUE, path |-> FilePath(f),
          cause |-> "Unsupported or corrupted video file"]
    ELSE IF generate_topic_id(f.name).raised
    THEN [raised |-> TRUE, wrapped |-> TRUE, path |-> FilePath(f),
          cause |-> "IndexError"]
    ELSE [raised |-> FALSE, ctx |-> create_dita_context(f, preserve)]

(* ------------------------------------------------------------------ *)
(* Aggregation helpers: launcher.py                                     *)
(* ------------------------------------------------------------------ *)

(* the while loop of _dedup_name *)
RECURSIVE dedup_search(_, _, _, _)
dedup_search(base, ext, i, used) ==
    LET new == base \o <<"-">> \o IntToStr(i) \o ext
    IN IF new \in DOMAIN used THEN dedup_search(base, ext, i + 1, used) ELSE new

(* variant: a taken name is returned as it is *)
dedup_name_keeps(name, used) == name

(* variant: a free name gets a suffix too *)
dedup_name_always_suffix(name, used) ==
    dedup_search(splitext(name)[1], splitext(name)[2], 2, used)

(* _dedup_name(name, used) *)
dedup_name(name, used) ==
    IF name \notin DOMAIN used THEN name
    ELSE dedup_search(splitext(name)[1], splitext(name)[2], 2, used)

(* "Merge topics": returns the new dict, the rename_map and the final keys *)
RECURSIVE merge_topics(_, _, _, _)
merge_topics(items, dst, rename_map, keys) ==
    IF items = <<>> THEN [dst |-> dst, rename_map |-> rename_map, keys |-> keys]
    ELSE LET tname == Head(items).name
             safe_name == dedup_name(tname, dst)
         IN merge_topics(Tail(items),
                         Put(dst, safe_name, Head(items).el),
                         IF safe_name # tname THEN Put(rename_map, tname, safe_name)
                         ELSE rename_map,
                         Append(keys, safe_name))

(* variant: media is stored under the name the handler gave it *)
RECURSIVE merge_media_overwrites(_, _, _)
merge_media_overwrites(items, dst, keys) ==
    IF items = <<>> THEN [dst |-> dst, keys |-> keys]
    ELSE merge_media_overwrites(Tail(items),
                                Put(dst, Head(items).name, Head(items).blob),
                                Append(keys, Head(items).name))

(* "Merge media": images and videos, each into its own dict *)
RECURSIVE merge_media(_, _, _)
merge_media(items, dst, keys) ==
    IF items = <<>> THEN [dst |-> dst, keys |-> keys]
    ELSE LET s == dedup_name(Head(items).name, dst)
         IN merge_media(Tail(items), Put(dst, s, Head(items).blob), Append(keys, s))

(* "Merge per-video metadata": video_info_map entries *)
RECURSIVE merge_info(_, _, _)
merge_info(items, dst, keys) ==
    IF items = <<>> THEN [dst |-> dst, keys |-> keys]
    ELSE LET key == dedup_name(Head(items).k, dst)
         IN merge_info(Tail(items), Put(dst, key, Head(items).v), Append(keys, key))

(* variant: without the fallback to the first topic *)
child_href_no_fallback(ctx) ==
    LET with_href == SelectSeq(ctx.topicrefs, LAMBDA t : t.href # <<>>)
    IN IF with_href # <<>> THEN with_href[1].href ELSE <<>>

(* the topic filename referenced by the child map, with the fallback to   *)
(* the first topic; <<>> stands for None / empty                         *)
child_href(ctx) ==
    LET with_href == SelectSeq(ctx.topicrefs, LAMBDA t : t.href # <<>>)
    IN IF with_href # <<>> THEN with_href[1].href
       ELSE IF ctx.topics # <<>> THEN topics_dir \o ctx.topics[1].name
       ELSE <<>>

(* variant: the rename is not applied to the reference *)
renamed_not_applied(rename_map, base) == base

(* rename_map.get(base, base) *)
renamed(rename_map, base) ==
    IF base \in DOMAIN rename_map THEN rename_map[base] ELSE base

(* the href set on the appended topicref *)
final_href(href, rename_map) == topics_dir \o renamed(rename_map, basename(href))

(* variant: only the name of the containing directory is used *)
rel_key_of_leaf(f) == IF f.dir = <<>> THEN <<>> ELSE f.dir[Len(f.dir)]

(* str(f.relative_to(root_folder).parent) with os.sep replaced by '/':   *)
(* '.' for a file directly under the root                                *)
rel_str(f) == IF f.dir = <<>> THEN <<".">> ELSE Join(f.dir, "/")

(* variant: '.' is kept as a folder key *)
rel_key_of_dot(f) == rel_str(f)

(* rel_key of a file: its directory relative to root_folder, '/'-joined,  *)
(* '' for a file directly under the root                                 *)
rel_key_of(f) == IF rel_str(f) # <<".">> THEN rel_str(f) ELSE <<>>

(* variant: the folder key is computed in the files flow too *)
target_rel_key_any_mode(f, root) == rel_key_of(f)

(* the folder key under which a file's topicref goes: '' in the files    *)
(* flow (root_folder is None) and for a file directly under the root     *)
target_rel_key(f, root) == IF root # "None" THEN rel_key_of(f) ELSE <<>>

topichead(parent, label) ==
    [tag |-> "topichead", parent |-> parent, navtitle |-> label, href |-> <<>>]

topicref(parent, label, href) ==
    [tag |-> "topicref", parent |-> parent, navtitle |-> label, href |-> href]

(* variant: a new child is put before its siblings *)
children_prepended(ns, p) ==
    LET ids == {i \in 1..Len(ns) : ns[i].parent = p}
        RECURSIVE Desc(_)
        Desc(set) == IF set = {} THEN <<>>
                     ELSE LET mx == CHOOSE i \in set : \A j \in set : j <= i
                          IN <<mx>> \o Desc(set \ {mx})
    IN Desc(ids)

(* the children of node p in document order: ET.SubElement puts each new *)
(* element after the existing children of its parent                     *)
children(ns, p) ==
    SelectSeq([i \in 1..Len(ns) |-> i], LAMBDA i : ns[i].parent = p)

(* variant: a new folder node is cached under its own name only *)
RECURSIVE ensure_walk_keyed_by_part(_, _, _, _, _)
ensure_walk_keyed_by_part(parts, path_accum, parent, ns, cache) ==
    IF parts = <<>> THEN [nodes |-> ns, cache |-> cache, parent |-> parent]
    ELSE LET part == Head(parts)
             accum == Append(path_accum, part)
             key == Join(accum, "/")
         IN IF key \in DOMAIN cache
            THEN ensure_walk_keyed_by_part(Tail(parts), accum, cache[key], ns, cache)
            ELSE LET head == Len(ns) + 1
                 IN ensure_walk_keyed_by_part(Tail(parts), accum, head,
                                              Append(ns, topichead(parent, part)),
                                              Put(cache, part, head))

(* the for loop of _ensure_folder_nodes: node 0 is map_el, a node is the  *)
(* index of its record in ns; ET.SubElement appends after the siblings   *)
RECURSIVE ensure_walk(_, _, _, _, _)
ensure_walk(parts, path_accum, parent, ns, cache) ==
    IF parts = <<>> THEN [nodes |-> ns, cache |-> cache, parent |-> parent]
    ELSE LET part == Head(parts)
             accum == Append(path_accum, part)
             key == Join(accum, "/")
         IN IF key \in DOMAIN cache
            THEN ensure_walk(Tail(parts), accum, cache[key], ns, cache)
            ELSE LET head == Len(ns) + 1
                 IN ensure_walk(Tail(parts), accum, head,
                                Append(ns, topichead(parent, part)),
                                Put(cache, key, head))

(* variant: the cache is neither consulted nor filled *)
ensure_folder_nodes_uncached(ns, cache, rel_key) ==
    LET r == ensure_walk(SplitNonEmpty(rel_key, "/", <<>>), <<>>, 0, ns, EmptyDict)
    IN [nodes |-> r.nodes, cache |-> cache, parent |-> r.parent]

(* _ensure_folder_nodes(map_el, cache, rel_key) *)
ensure_folder_nodes(ns, cache, rel_key) ==
    IF rel_key \in DOMAIN cache
    THEN [nodes |-> ns, cache |-> cache, parent |-> cache[rel_key]]
    ELSE ensure_walk(SplitNonEmpty(rel_key, "/", <<>>), <<>>, 0, ns, cache)

(* ------------------------------------------------------------------ *)
(* Input files                                                          *)
(* ------------------------------------------------------------------ *)
name_a_mp4 == <<"a">> \o ext_mp4
name_A_mp4 == <<"A">> \o ext_mp4
name_a2_mp4 == <<"a", "-", "2">> \o ext_mp4
name_b_mp4 == <<"b">> \o ext_mp4
name_b_txt == <<"b">> \o ext_txt
name_bang_mp4 == <<"!">> \o ext_mp4

dir_root == <<>>
dir_c == << <<"c">> >>
dir_d == << <<"d">> >>
dir_e == << <<"e">> >>
dir_cd == << <<"c">>, <<"d">> >>

File(d, n, ex, rd, inf) ==
    [dir |-> d, name |-> n, exists |-> ex, readable |-> rd, info |-> inf,
     size_mb |-> 1]

(* the same file, larger than the size limit *)
Oversized(f) == [f EXCEPT !.size_mb = max_file_size_mb + 1]

(* the files a batch is drawn from: paths under the selected folder, with *)
(* equal names in different directories, an unsupported extension, an    *)
(* unreadable video and a name without any alphanumeric character        *)
FileUniverse ==
    { File(dir_root, name_a_mp4, TRUE, TRUE, FALSE),
      File(dir_c, name_a_mp4, TRUE, TRUE, TRUE),
      File(dir_cd, name_a_mp4, TRUE, TRUE, TRUE),
      Oversized(File(dir_c, name_a2_mp4, TRUE, TRUE, TRUE)),
      File(dir_d, name_A_mp4, TRUE, TRUE, FALSE),
      File(dir_e, name_b_txt, TRUE, TRUE, FALSE),
      File(dir_e, name_bang_mp4, TRUE, TRUE, FALSE),
      File(dir_root, name_b_mp4, TRUE, FALSE, FALSE) }

(* ordered lists of distinct files, as the file dialog or os.walk yields *)
RECURSIVE FileLists(_)
FileLists(n) ==
    IF n = 0 THEN {<<>>}
    ELSE LET shorter == FileLists(n - 1)
         IN shorter \cup
            {Append(l, f) : l \in {x \in shorter : Len(x) = n - 1},
                            f \in FileUniverse}

Distinct(l) == \A i, j \in 1..Len(l) : i # j => l[i] # l[j]

plugin_id == "orlando-video-plugin"

(* ------------------------------------------------------------------ *)
(* State                                                                *)
(* ------------------------------------------------------------------ *)
VARIABLES
    files,            \* the ordered input list of the batch
    root_folder,      \* "None" (files flow) or "R" (folder flow)
    preserve,         \* config dita_integration.preserve_original_filenames
    pc,               \* position of the worker thread
    idx,              \* index of the file the loop is at (1-based)
    metadata,         \* combined.metadata
    plugin_data,      \* combined.plugin_data (without video_info_map)
    topics,           \* combined.topics
    images,           \* combined.images
    videos,           \* combined.videos
    video_info_map,   \* combined.plugin_data[plugin_id]['video_info_map']
    nodes,            \* descendants of combined.ditamap_root, in creation order
    folder_nodes,     \* the folder node cache
    log,              \* history: what each merged file contributed
    after_queue,      \* callbacks scheduled with app_ui.root.after(0, ...)
    ui_enabled,       \* the host UI is enabled
    host_ctx,         \* projects handed to on_conversion_success
    errors,           \* messages shown by messagebox.showerror
    w2,               \* a second worker thread: its batch and its locals
    call,             \* one call of a helper function: arguments and locals
    plugin,           \* VideoConverterPlugin and the host registries
    panel             \* VideoPreviewPanel: player, saved positions, timers

vars == <<files, root_folder, preserve, pc, idx, metadata, plugin_data, topics,
          images, videos, video_info_map, nodes, folder_nodes, log,
          after_queue, ui_enabled, host_ctx, errors, w2, call,
          plugin, panel>>

aux == <<w2, call, plugin, panel>>
batch == <<files, root_folder, preserve>>
combined == <<metadata, plugin_data, topics, images, videos, video_info_map, nodes>>
ui == <<ui_enabled, host_ctx, errors>>
main == <<batch, pc, idx, combined, folder_nodes, log, after_queue, ui>>

(* no second thread, no helper call under observation *)
NoRun == [pc |-> "none"]
NoCall == [op |-> "none"]
NoPlugin == [state |-> "none"]
NoPanel == [state |-> "none"]

Init ==
    /\ w2 = NoRun
    /\ plugin = NoPlugin
    /\ panel = NoPanel
    /\ call = NoCall
    /\ files \in {l \in FileLists(MaxFiles) : Distinct(l)}
    /\ root_folder \in {"None", "R"}
    /\ preserve \in BOOLEAN
    /\ pc = "idle"
    /\ idx = 0
    /\ metadata = EmptyDict
    /\ plugin_data = EmptyDict
    /\ topics = EmptyDict
    /\ images = EmptyDict
    /\ videos = EmptyDict
    /\ video_info_map = EmptyDict
    /\ nodes = <<>>
    /\ folder_nodes = EmptyDict
    /\ log = <<>>
    /\ after_queue = <<>>
    /\ ui_enabled = TRUE
    /\ host_ctx = <<>>
    /\ errors = <<>>

(* nothing has run yet: the state before _run_batch_conversion *)
Fresh ==
    /\ pc = "idle"
    /\ idx = 0
    /\ metadata = EmptyDict
    /\ plugin_data = EmptyDict
    /\ topics = EmptyDict
    /\ images = EmptyDict
    /\ videos = EmptyDict
    /\ video_info_map = EmptyDict
    /\ nodes = <<>>
    /\ folder_nodes = EmptyDict
    /\ log = <<>>
    /\ after_queue = <<>>
    /\ ui_enabled = TRUE
    /\ host_ctx = <<>>
    /\ errors = <<>>

(* _run_batch_conversion: disable the UI and start the worker thread *)
RunBatchConversion ==
    /\ pc = "idle"
    /\ pc' = "started"
    /\ ui_enabled' = FALSE
    /\ UNCHANGED <<aux, batch, idx, combined, folder_nodes, log, after_queue,
                   host_ctx, errors>>

(* _convert_many up to the loop: fresh context, project defaults, map root *)
ConvertManyBegin ==
    /\ pc = "started"
    /\ pc' = "loop"
    /\ idx' = 1
    /\ metadata' = [manual_title |-> "VIDEO-LIBRARY", revision_date |-> "today"]
    /\ plugin_data' = [_source_plugin |-> plugin_id]
    /\ topics' = EmptyDict
    /\ images' = EmptyDict
    /\ videos' = EmptyDict
    /\ video_info_map' = EmptyDict
    /\ nodes' = <<>>
    /\ folder_nodes' = EmptyDict
    /\ UNCHANGED <<aux, batch, log, after_queue, ui>>

(* variant: the loop ends at a file without handler *)
SkipFile_breaks ==
    /\ pc = "loop"
    /\ idx <= Len(files)
    /\ ~can_handle(files[idx])
    /\ idx' = Len(files) + 1
    /\ UNCHANGED <<aux, batch, pc, combined, folder_nodes, log, after_queue, ui>>

(* one loop iteration for a file without handler: continue *)
SkipFile ==
    /\ pc = "loop"
    /\ idx <= Len(files)
    /\ ~can_handle(files[idx])
    /\ idx' = idx + 1
    /\ UNCHANGED <<aux, batch, pc, combined, folder_nodes, log, after_queue, ui>>

(* variant: the project title follows the title of the merged video *)
merged_metadata_titled(md, ctx) == [md EXCEPT !.manual_title = ctx.metadata.title]

(* combined.metadata after a file is merged: the loop only reads it *)
merged_metadata(md, ctx) == md

(* variant: the metadata keys are deduplicated against the video names *)
info_namespace_videos(st) == st.videos

(* dst of "Merge per-video metadata": the combined video_info_map        *)
info_namespace(st) == st.video_info_map

(* the locals of one _convert_many run that the loop body updates *)
RunState ==
    [metadata |-> metadata, topics |-> topics, images |-> images,
     videos |-> videos, video_info_map |-> video_info_map, nodes |-> nodes,
     folder_nodes |-> folder_nodes, log |-> log]

(* variant: the folder nodes are made before the reference is looked up  *)
merge_ctx_folder_first(st, root, i, f, ctx) ==
    LET mt == merge_topics(ctx.topics, st.topics, EmptyDict, <<>>)
        mi == merge_media(ctx.images, st.images, <<>>)
        mv == merge_media(ctx.videos, st.videos, <<>>)
        mm == merge_info(ctx.video_info_map, info_namespace(st), <<>>)
        href == child_href(ctx)
        rel_key == target_rel_key(f, root)
        en == IF rel_key # <<>>
              THEN ensure_folder_nodes(st.nodes, st.folder_nodes, rel_key)
              ELSE [nodes |-> st.nodes, cache |-> st.folder_nodes, parent |-> 0]
        tref == topicref(en.parent, path_stem(f.name), final_href(href, mt.rename_map))
    IN [metadata |-> merged_metadata(st.metadata, ctx),
        topics |-> mt.dst,
        images |-> mi.dst,
        videos |-> mv.dst,
        video_info_map |-> mm.dst,
        nodes |-> IF href # <<>> THEN Append(en.nodes, tref) ELSE en.nodes,
        folder_nodes |-> en.cache,
        log |-> Append(st.log, [idx |-> i,
                                tkeys |-> mt.keys,
                                ikeys |-> mi.keys,
                                vkeys |-> mv.keys,
                                mkeys |-> mm.keys,
                                ref |-> IF href # <<>> THEN Len(en.nodes) + 1 ELSE 0])]

(* the body of the loop for the i-th file f and its converted context    *)
(* ctx, on the locals st of a run with root folder root                  *)
merge_ctx(st, root, i, f, ctx) ==
    LET mt == merge_topics(ctx.topics, st.topics, EmptyDict, <<>>)
        mi == merge_media(ctx.images, st.images, <<>>)
        mv == merge_media(ctx.videos, st.videos, <<>>)
        mm == merge_info(ctx.video_info_map, info_namespace(st), <<>>)
        href == child_href(ctx)
        rel_key == target_rel_key(f, root)
        en == IF href # <<>> /\ rel_key # <<>>
              THEN ensure_folder_nodes(st.nodes, st.folder_nodes, rel_key)
              ELSE [nodes |-> st.nodes, cache |-> st.folder_nodes, parent |-> 0]
        tref == topicref(en.parent, path_stem(f.name), final_href(href, mt.rename_map))
    IN [metadata |-> merged_metadata(st.metadata, ctx),
        topics |-> mt.dst,
        images |-> mi.dst,
        videos |-> mv.dst,
        video_info_map |-> mm.dst,
        nodes |-> IF href # <<>> THEN Append(en.nodes, tref) ELSE st.nodes,
        folder_nodes |-> en.cache,
        log |-> Append(st.log, [idx |-> i,
                                tkeys |-> mt.keys,
                                ikeys |-> mi.keys,
                                vkeys |-> mv.keys,
                                mkeys |-> mm.keys,
                                ref |-> IF href # <<>> THEN Len(en.nodes) + 1 ELSE 0])]

(* the loop body applied to the locals of the run *)
MergeCtx(f, ctx) ==
    \E st \in {merge_ctx(RunState, root_folder, idx, f, ctx)} :
        /\ metadata' = st.metadata
        /\ topics' = st.topics
        /\ images' = st.images
        /\ videos' = st.videos
        /\ video_info_map' = st.video_info_map
        /\ nodes' = st.nodes
        /\ folder_nodes' = st.folder_nodes
        /\ log' = st.log

(* one loop iteration for a file whose conversion succeeds *)
MergeFile ==
    /\ pc = "loop"
    /\ idx <= Len(files)
    /\ can_handle(files[idx])
    /\ \E r \in {convert_to_dita(files[idx], preserve)} :
          /\ ~r.raised
          /\ \E ctx \in {with_video_info(r.ctx, files[idx])} : MergeCtx(files[idx], ctx)
    /\ idx' = idx + 1
    /\ UNCHANGED <<aux, batch, pc, plugin_data, after_queue, ui>>

(* variant: a failed conversion is skipped like an unsupported file *)
ConversionFails_continues ==
    /\ pc = "loop"
    /\ idx <= Len(files)
    /\ can_handle(files[idx])
    /\ convert_to_dita(files[idx], preserve).raised
    /\ idx' = idx + 1
    /\ UNCHANGED <<aux, batch, pc, combined, folder_nodes, log, after_queue, ui>>

(* convert_to_dita raises: the exception leaves _convert_many and work()  *)
(* schedules _fail on the UI thread                                      *)
ConversionFails ==
    /\ pc = "loop"
    /\ idx <= Len(files)
    /\ can_handle(files[idx])
    /\ LET r == convert_to_dita(files[idx], preserve)
       IN /\ r.raised
          /\ after_queue' = Append(after_queue,
                 [fn |-> "_fail", path |-> r.path, cause |-> r.cause])
    /\ pc' = "raised"
    /\ UNCHANGED <<aux, batch, idx, combined, folder_nodes, log, ui>>

(* the project as _convert_many returns it *)
Project ==
    [metadata |-> metadata, plugin_data |-> plugin_data,
     topics |-> topics, images |-> images, videos |-> videos,
     video_info_map |-> video_info_map, nodes |-> nodes]

(* variant: the loop stops one file early *)
ConvertManyReturn_early ==
    /\ pc = "loop"
    /\ idx >= Len(files)
    /\ pc' = "returned"
    /\ after_queue' = Append(after_queue,
           [fn |-> "on_conversion_success", ctx |-> Project])
    /\ UNCHANGED <<aux, batch, idx, combined, folder_nodes, log, ui>>

(* the loop is over: _convert_many returns combined and work() schedules  *)
(* on_conversion_success(ctx) on the UI thread                           *)
ConvertManyReturn ==
    /\ pc = "loop"
    /\ idx > Len(files)
    /\ pc' = "returned"
    /\ after_queue' = Append(after_queue,
           [fn |-> "on_conversion_success", ctx |-> Project])
    /\ UNCHANGED <<aux, batch, idx, combined, folder_nodes, log, ui>>

(* the UI thread runs a scheduled on_conversion_success *)
OnConversionSuccess ==
    /\ after_queue # <<>>
    /\ Head(after_queue).fn = "on_conversion_success"
    /\ host_ctx' = Append(host_ctx, Head(after_queue).ctx)
    /\ after_queue' = Tail(after_queue)
    /\ UNCHANGED <<aux, batch, pc, idx, combined, folder_nodes, log, ui_enabled, errors>>

(* the UI thread runs a scheduled _fail *)
Fail ==
    /\ after_queue # <<>>
    /\ Head(after_queue).fn = "_fail"
    /\ ui_enabled' = TRUE
    /\ errors' = Append(errors, [path |-> Head(after_queue).path,
                                 cause |-> Head(after_queue).cause])
    /\ after_queue' = Tail(after_queue)
    /\ UNCHANGED <<aux, batch, pc, idx, combined, folder_nodes, log, host_ctx>>

Next ==
    \/ RunBatchConversion
    \/ ConvertManyBegin
    \/ SkipFile
    \/ MergeFile
    \/ ConversionFails
    \/ ConvertManyReturn
    \/ OnConversionSuccess
    \/ Fail

Spec == Init /\ [][Next]_vars

(* the started worker thread runs until work() returns and the Tk main   *)
(* loop runs every callback scheduled with after(0, ...)                 *)
SpecFair == Init /\ [][Next]_vars /\ WF_vars(Next)

(* ------------------------------------------------------------------ *)
(* A second batch on its own worker thread                              *)
(* ------------------------------------------------------------------ *)

MaxTwoFiles == 2

(* the files the two batches are drawn from *)
TwoUniverse ==
    { File(dir_root, name_a_mp4, TRUE, TRUE, FALSE),
      File(dir_c, name_a_mp4, TRUE, TRUE, TRUE),
      File(dir_cd, name_a_mp4, TRUE, TRUE, TRUE),
      File(dir_e, name_b_txt, TRUE, TRUE, FALSE),
      File(dir_e, name_bang_mp4, TRUE, TRUE, FALSE) }

TwoLists ==
    {l \in FileLists(MaxTwoFiles) :
        Distinct(l) /\ \A k \in 1..Len(l) : l[k] \in TwoUniverse}

Reverse(l) == [k \in 1..Len(l) |-> l[Len(l) + 1 - k]]

(* the locals of _convert_many when the loop starts *)
BeginState ==
    [metadata |-> [manual_title |-> "VIDEO-LIBRARY", revision_date |-> "today"],
     topics |-> EmptyDict, images |-> EmptyDict, videos |-> EmptyDict,
     video_info_map |-> EmptyDict, nodes |-> <<>>,
     folder_nodes |-> EmptyDict, log |-> <<>>]

(* the project a run returns: its combined context *)
project_of(st, pd) ==
    [metadata |-> st.metadata, plugin_data |-> pd,
     topics |-> st.topics, images |-> st.images, videos |-> st.videos,
     video_info_map |-> st.video_info_map, nodes |-> st.nodes]

(* the second call of _run_batch_conversion gets the same batch, or the  *)
(* same files in the opposite order                                      *)
InitTwo ==
    /\ files \in TwoLists
    /\ root_folder \in {"None", "R"}
    /\ preserve \in BOOLEAN
    /\ Fresh
    /\ call = NoCall
    /\ plugin = NoPlugin
    /\ panel = NoPanel
    /\ w2 \in {[pc |-> "idle", files |-> fs, root_folder |-> root_folder,
                idx |-> 0, plugin_data |-> EmptyDict, st |-> BeginState] :
                   fs \in {files, Reverse(files)}}

(* _run_batch_conversion, called again: a second worker thread starts *)
RunBatchConversion2 ==
    /\ w2.pc = "idle"
    /\ w2' = [w2 EXCEPT !.pc = "started"]
    /\ ui_enabled' = FALSE
    /\ UNCHANGED <<call, plugin, panel, batch, pc, idx, combined, folder_nodes, log,
                   after_queue, host_ctx, errors>>

(* _convert_many up to the loop, on the second thread *)
ConvertManyBegin2 ==
    /\ w2.pc = "started"
    /\ w2' = [w2 EXCEPT !.pc = "loop", !.idx = 1, !.st = BeginState,
                        !.plugin_data = [_source_plugin |-> plugin_id]]
    /\ UNCHANGED <<call, plugin, panel, main>>

SkipFile2 ==
    /\ w2.pc = "loop"
    /\ w2.idx <= Len(w2.files)
    /\ ~can_handle(w2.files[w2.idx])
    /\ w2' = [w2 EXCEPT !.idx = w2.idx + 1]
    /\ UNCHANGED <<call, plugin, panel, main>>

(* variant: the folder cache is an attribute both runs use *)
own_folder_nodes_shared(w) == folder_nodes

(* folder_nodes is a local of _convert_many *)
own_folder_nodes(w) == w.st.folder_nodes

(* variant: the combined context is an attribute both runs use *)
own_topics_shared(w) == topics

(* combined is a local of _convert_many *)
own_topics(w) == w.st.topics

MergeFile2 ==
    /\ w2.pc = "loop"
    /\ w2.idx <= Len(w2.files)
    /\ can_handle(w2.files[w2.idx])
    /\ \E r \in {convert_to_dita(w2.files[w2.idx], preserve)} :
          /\ ~r.raised
          /\ \E ctx \in {with_video_info(r.ctx, w2.files[w2.idx])},
                st \in {[w2.st EXCEPT !.folder_nodes = own_folder_nodes(w2),
                                      !.topics = own_topics(w2)]} :
                w2' = [w2 EXCEPT
                          !.st = merge_ctx(st, w2.root_folder, w2.idx,
                                           w2.files[w2.idx], ctx),
                          !.idx = w2.idx + 1]
    /\ UNCHANGED <<call, plugin, panel, main>>

ConversionFails2 ==
    /\ w2.pc = "loop"
    /\ w2.idx <= Len(w2.files)
    /\ can_handle(w2.files[w2.idx])
    /\ \E r \in {convert_to_dita(w2.files[w2.idx], preserve)} :
          /\ r.raised
          /\ after_queue' = Append(after_queue,
                 [fn |-> "_fail", path |-> r.path, cause |-> r.cause])
    /\ w2' = [w2 EXCEPT !.pc = "raised"]
    /\ UNCHANGED <<call, plugin, panel, batch, pc, idx, combined, folder_nodes, log, ui>>

ConvertManyReturn2 ==
    /\ w2.pc = "loop"
    /\ w2.idx > Len(w2.files)
    /\ w2' = [w2 EXCEPT !.pc = "returned"]
    /\ after_queue' = Append(after_queue,
           [fn |-> "on_conversion_success",
            ctx |-> project_of(w2.st, w2.plugin_data)])
    /\ UNCHANGED <<call, plugin, panel, batch, pc, idx, combined, folder_nodes, log, ui>>

NextTwo ==
    \/ Next
    \/ RunBatchConversion2
    \/ ConvertManyBegin2
    \/ SkipFile2
    \/ MergeFile2
    \/ ConversionFails2
    \/ ConvertManyReturn2

SpecTwo == InitTwo /\ [][NextTwo]_vars

(* _convert_many run alone from the i-th file on: the locals it ends     *)
(* with, or raised when a conversion fails                               *)
RECURSIVE run_alone(_, _, _, _, _)
run_alone(st, fs, root, pres, i) ==
    IF i > Len(fs) THEN [raised |-> FALSE, st |-> st]
    ELSE IF ~can_handle(fs[i]) THEN run_alone(st, fs, root, pres, i + 1)
    ELSE IF convert_to_dita(fs[i], pres).raised THEN [raised |-> TRUE, st |-> st]
    ELSE run_alone(merge_ctx(st, root, i, fs[i],
                             with_video_info(convert_to_dita(fs[i], pres).ctx, fs[i])),
                   fs, root, pres, i + 1)

(* ------------------------------------------------------------------ *)
(* Helper functions called alone                                        *)
(* ------------------------------------------------------------------ *)

(* no batch is running: the launcher is idle *)
NoBatch ==
    /\ files = <<>>
    /\ root_folder = "None"
    /\ preserve = TRUE
    /\ Fresh

MaxUsed == 3

name_dots_mp4 == <<".">> \o ext_mp4
name_ab_mp4 == <<"a", ".", "b">> \o ext_mp4
name_a_dita == <<"a">> \o ext_dita

(* keys the merge passes to _dedup_name: media and topic file names *)
DedupNames == {name_a_mp4, name_a2_mp4, name_dots_mp4, name_ab_mp4, name_a_dita}

(* keys a project can hold next to them *)
DedupKeys ==
    DedupNames \cup
    { <<"a", "-", "3">> \o ext_mp4,
      <<"a", "-", "2", "-", "2">> \o ext_mp4,
      name_dots_mp4 \o <<"-", "2">>,
      <<".", "-", "2">> \o ext_mp4,
      <<"a", ".", "b", "-", "2">> \o ext_mp4,
      <<"a", "-", "2">> \o ext_dita,
      <<"a", "-", "3">> \o ext_dita }

UsedDicts ==
    {[k \in ks |-> "x"] : ks \in {x \in SUBSET DedupKeys : Cardinality(x) <= MaxUsed}}

InitDedup ==
    /\ NoBatch
    /\ w2 = NoRun
    /\ plugin = NoPlugin
    /\ panel = NoPanel
    /\ \E n \in DedupNames, u \in UsedDicts :
          call = [op |-> "_dedup_name", pc |-> "entry", name |-> n, used |-> u,
                  base |-> <<>>, ext |-> <<>>, i |-> 0, new |-> <<>>,
                  tries |-> 0, result |-> <<>>]

(* f"{base}-{i}{ext}" *)
candidate(base, i, ext) == base \o <<"-">> \o IntToStr(i) \o ext

(* _dedup_name up to the loop: a free name is returned as it is *)
DedupEntry ==
    /\ call.op = "_dedup_name"
    /\ call.pc = "entry"
    /\ call' = IF call.name \notin DOMAIN call.used
               THEN [call EXCEPT !.pc = "done", !.result = call.name]
               ELSE LET se == splitext(call.name)
                    IN [call EXCEPT !.pc = "loop",
                                    !.base = se[1],
                                    !.ext = se[2],
                                    !.i = 2,
                                    !.new = candidate(se[1], 2, se[2]),
                                    !.tries = 1]
    /\ UNCHANGED <<main, w2, plugin, panel>>

(* variant: the counter is not advanced *)
DedupLoop_stuck ==
    /\ call.op = "_dedup_name"
    /\ call.pc = "loop"
    /\ call.new \in DOMAIN call.used
    /\ call' = [call EXCEPT !.new = candidate(call.base, call.i, call.ext),
                            !.tries = call.tries + 1]
    /\ UNCHANGED <<main, w2, plugin, panel>>

(* one iteration of "while new in used" *)
DedupLoop ==
    /\ call.op = "_dedup_name"
    /\ call.pc = "loop"
    /\ call.new \in DOMAIN call.used
    /\ call' = [call EXCEPT !.i = call.i + 1,
                            !.new = candidate(call.base, call.i + 1, call.ext),
                            !.tries = call.tries + 1]
    /\ UNCHANGED <<main, w2, plugin, panel>>

(* the loop condition fails: return new *)
DedupReturn ==
    /\ call.op = "_dedup_name"
    /\ call.pc = "loop"
    /\ call.new \notin DOMAIN call.used
    /\ call' = [call EXCEPT !.pc = "done", !.result = call.new]
    /\ UNCHANGED <<main, w2, plugin, panel>>

NextDedup == DedupEntry \/ DedupLoop \/ DedupReturn

(* the call runs on the worker thread until it returns *)
SpecDedup == InitDedup /\ [][NextDedup]_vars /\ WF_vars(NextDedup)

(* stems of video file names: plain, upper case, separators, leading     *)
(* digit or separator, runs of separators, dots, no usable character, a  *)
(* stem longer than the id limit                                         *)
LongStem == [k \in 1..(MaxIdLen - 1) |-> "a"] \o <<"-", "b">>

ContextStems ==
    { <<"a">>, <<"A">>, <<"a", "b">>, <<"a", " ", "b">>, <<"a", "_", "b">>,
      <<"a", "-", "-", "b">>, <<"a", " ", "-", "_", "b">>, <<"1", "a">>,
      <<"-", "a">>, <<"a", "-">>, <<"a", ".", "b">>, <<".">>, <<"!">>,
      <<"a", "!", "b">>, LongStem }

ContextFiles ==
    { File(dir_root, st \o e, TRUE, TRUE, FALSE) :
          st \in ContextStems, e \in {ext_mp4, ext_webm} }

InitContext ==
    /\ NoBatch
    /\ w2 = NoRun
    /\ plugin = NoPlugin
    /\ panel = NoPanel
    /\ \E f \in ContextFiles, p \in BOOLEAN :
          call = [op |-> "create_dita_context", pc |-> "entry", f |-> f,
                  preserve |-> p, ctx |-> <<>>]

(* create_dita_context returns the context of the video *)
CreateDitaContext ==
    /\ call.op = "create_dita_context"
    /\ call.pc = "entry"
    /\ ~generate_topic_id(call.f.name).raised
    /\ call' = [call EXCEPT !.pc = "done",
                            !.ctx = create_dita_context(call.f, call.preserve)]
    /\ UNCHANGED <<main, w2, plugin, panel>>

(* _generate_topic_id raises: no context is returned *)
CreateDitaContextRaises ==
    /\ call.op = "create_dita_context"
    /\ call.pc = "entry"
    /\ generate_topic_id(call.f.name).raised
    /\ call' = [call EXCEPT !.pc = "raised"]
    /\ UNCHANGED <<main, w2, plugin, panel>>

NextContext == CreateDitaContext \/ CreateDitaContextRaises

SpecContext == InitContext /\ [][NextContext]_vars

(* ------------------------------------------------------------------ *)
(* Plugin lifecycle: plugin.py                                          *)
(* ------------------------------------------------------------------ *)

MaxCycles == 3

(* the host registries hold what was registered, in order; unregistering *)
(* removes every entry of the plugin (of the panel type, capability)     *)
register(reg, entry) == Append(reg, entry)
unregister(reg, key) == SelectSeq(reg, LAMBDA e : e.key # key)

(* the plugin is loaded into a host whose app_context may lack either    *)
(* registry and whose ui_registry may lack the optional methods          *)
InitPlugin ==
    /\ NoBatch
    /\ w2 = NoRun
    /\ call = NoCall
    /\ panel = NoPanel
    /\ \E sr, ur, cap, wl \in BOOLEAN :
          plugin = [state |-> "loaded", document_handler |-> 0,
                    handlers |-> <<>>, panel_factories |-> <<>>,
                    capabilities |-> <<>>, launchers |-> <<>>,
                    has_service_registry |-> sr, has_ui_registry |-> ur,
                    has_capability_api |-> cap, has_launcher_api |-> wl,
                    activations |-> 0, peak |-> 0]

(* register_ui_components, given whether creating or registering the     *)
(* workflow launcher raises (caught: non-fatal)                          *)
register_ui_components(p, launcher_raises) ==
    [p EXCEPT
        !.panel_factories =
            register(@, [key |-> <<"video_preview", plugin_id>>]),
        !.capabilities =
            IF p.has_capability_api
            THEN register(@, [key |-> <<plugin_id, "video_preview">>]) ELSE @,
        !.launchers =
            IF p.has_launcher_api /\ ~launcher_raises
            THEN register(@, [key |-> plugin_id]) ELSE @]

(* variant: the workflow launcher stays registered *)
unregister_ui_components_keeps_launcher(p) ==
    [p EXCEPT
        !.panel_factories = unregister(@, <<"video_preview", plugin_id>>),
        !.capabilities =
            IF p.has_capability_api
            THEN unregister(@, <<plugin_id, "video_preview">>) ELSE @]

(* unregister_ui_components *)
unregister_ui_components(p) ==
    [p EXCEPT
        !.panel_factories = unregister(@, <<"video_preview", plugin_id>>),
        !.capabilities =
            IF p.has_capability_api
            THEN unregister(@, <<plugin_id, "video_preview">>) ELSE @,
        !.launchers =
            IF p.has_launcher_api THEN unregister(@, plugin_id) ELSE @]

registrations(p) ==
    Len(p.handlers) + Len(p.panel_factories) + Len(p.capabilities)
        + Len(p.launchers)

(* on_activate: a new handler is created and registered, then the UI     *)
(* components; an exception of register_panel_factory is re-raised       *)
OnActivate ==
    /\ plugin.state \in {"loaded", "inactive"}
    /\ plugin.activations < MaxCycles
    /\ \E ui_raises, launcher_raises \in BOOLEAN :
          /\ ui_raises => plugin.has_ui_registry
          /\ launcher_raises => (plugin.has_ui_registry /\ plugin.has_launcher_api
                                    /\ ~ui_raises)
          /\ \E p1 \in {[plugin EXCEPT
                            !.activations = @ + 1,
                            !.document_handler = plugin.activations + 1,
                            !.handlers =
                                IF plugin.has_service_registry
                                THEN register(@, [key |-> plugin_id,
                                                  handler |-> plugin.activations + 1])
                                ELSE @]} :
                \E p2 \in {IF ui_raises THEN [p1 EXCEPT !.state = "failed"]
                           ELSE IF p1.has_ui_registry
                           THEN [register_ui_components(p1, launcher_raises)
                                     EXCEPT !.state = "active"]
                           ELSE [p1 EXCEPT !.state = "active"]} :
                    plugin' = [p2 EXCEPT !.peak = registrations(p2)]
    /\ UNCHANGED <<main, w2, call, panel>>

(* on_deactivate: with a handler set, unregister the handler service and *)
(* the UI components and drop the handler                                *)
OnDeactivate ==
    /\ plugin.state \in {"active", "failed", "inactive"}
    /\ \E p1 \in {IF plugin.document_handler # 0
                  THEN [plugin EXCEPT
                           !.handlers = IF plugin.has_service_registry
                                        THEN unregister(@, plugin_id) ELSE @]
                  ELSE plugin} :
          \E p2 \in {IF plugin.document_handler # 0 /\ plugin.has_ui_registry
                     THEN unregister_ui_components(p1) ELSE p1} :
             plugin' = [p2 EXCEPT !.document_handler = 0, !.state = "inactive"]
    /\ UNCHANGED <<main, w2, call, panel>>

NextPlugin == OnActivate \/ OnDeactivate

SpecPlugin == InitPlugin /\ [][NextPlugin]_vars

(* ------------------------------------------------------------------ *)
(* One convert_to_dita call, step by step: video_handler.py             *)
(* ------------------------------------------------------------------ *)

msg_validating == "Validating video file..."
msg_extracting == "Extracting video metadata..."
msg_creating == "Creating DITA topics..."
msg_completed == "Video conversion completed"

(* f"Error: {str(e)}" *)
msg_error(cause) == "Error: " \o cause

(* the files one call is made on: those of a batch and a missing one     *)
ConvertFiles ==
    FileUniverse \cup {File(dir_c, name_b_mp4, FALSE, FALSE, FALSE)}

(* the call with its arguments: the file, whether a progress callback is *)
(* given, and whether the probe of extract_metadata fails on this file   *)
InitConvert ==
    /\ NoBatch
    /\ w2 = NoRun
    /\ plugin = NoPlugin
    /\ panel = NoPanel
    /\ \E f \in ConvertFiles, cb, pres, probe_fails \in BOOLEAN :
          call = [op |-> "convert_to_dita", f |-> f, preserve |-> pres,
                  has_callback |-> cb, extract_raises |-> probe_fails,
                  pc |-> "start", progress |-> <<>>, failed |-> "none",
                  e |-> "none", exc |-> [raised |-> FALSE]]

(* if progress_callback: progress_callback(message) *)
progress_callback(c, message) ==
    IF c.has_callback THEN [c EXCEPT !.progress = Append(@, message)] ELSE c

(* self.validate_file_exists(file_path), before the try: the exception   *)
(* of the base class reaches the caller as it is                         *)
ValidateFileExists ==
    /\ call.op = "convert_to_dita"
    /\ call.pc = "start"
    /\ call' = IF call.f.exists THEN [call EXCEPT !.pc = "validate"]
               ELSE [call EXCEPT !.pc = "raised", !.failed = "exists",
                                 !.exc = [raised |-> TRUE, wrapped |-> FALSE,
                                          path |-> FilePath(call.f),
                                          cause |-> "FileNotFound"]]
    /\ UNCHANGED <<main, w2, plugin, panel>>

(* Step 1: validate_format *)
ValidateFormat ==
    /\ call.op = "convert_to_dita"
    /\ call.pc = "validate"
    /\ \E c \in {progress_callback(call, msg_validating)} :
          call' = IF c.f.readable THEN [c EXCEPT !.pc = "extract"]
                  ELSE [c EXCEPT !.pc = "except", !.failed = "validate",
                                 !.e = "Unsupported or corrupted video file"]
    /\ UNCHANGED <<main, w2, plugin, panel>>

(* Step 2: extract_metadata *)
ExtractMetadata ==
    /\ call.op = "convert_to_dita"
    /\ call.pc = "extract"
    /\ \E c \in {progress_callback(call, msg_extracting)} :
          call' = IF ~c.extract_raises THEN [c EXCEPT !.pc = "build"]
                  ELSE [c EXCEPT !.pc = "except", !.failed = "extract",
                                 !.e = "Failed to extract video metadata"]
    /\ UNCHANGED <<main, w2, plugin, panel>>

(* variant: the third step does not report its progress *)
CreateDitaTopics_silent ==
    /\ call.op = "convert_to_dita"
    /\ call.pc = "build"
    /\ call' = IF ~generate_topic_id(call.f.name).raised
               THEN [call EXCEPT !.pc = "built"]
               ELSE [call EXCEPT !.pc = "except", !.failed = "build",
                                 !.e = "IndexError"]
    /\ UNCHANGED <<main, w2, plugin, panel>>

(* Step 3: create_dita_context *)
CreateDitaTopics ==
    /\ call.op = "convert_to_dita"
    /\ call.pc = "build"
    /\ \E c \in {progress_callback(call, msg_creating)} :
          call' = IF ~generate_topic_id(c.f.name).raised
                  THEN [c EXCEPT !.pc = "built"]
                  ELSE [c EXCEPT !.pc = "except", !.failed = "build",
                                 !.e = "IndexError"]
    /\ UNCHANGED <<main, w2, plugin, panel>>

(* the last message of the try block and the return *)
ConvertReturns ==
    /\ call.op = "convert_to_dita"
    /\ call.pc = "built"
    /\ call' = [progress_callback(call, msg_completed) EXCEPT
                   !.pc = "returned",
                   !.exc = [raised |-> FALSE,
                            ctx |-> create_dita_context(call.f, call.preserve)]]
    /\ UNCHANGED <<main, w2, plugin, panel>>

(* variant: the exception is raised again without the file path *)
ConvertExcept_bare ==
    /\ call.op = "convert_to_dita"
    /\ call.pc = "except"
    /\ call' = [progress_callback(call, msg_error(call.e)) EXCEPT
                   !.pc = "raised",
                   !.exc = [raised |-> TRUE, wrapped |-> TRUE,
                            path |-> <<>>, cause |-> call.e]]
    /\ UNCHANGED <<main, w2, plugin, panel>>

(* except Exception as e: "Failed to convert video {file_path}: {e}"     *)
ConvertExcept ==
    /\ call.op = "convert_to_dita"
    /\ call.pc = "except"
    /\ call' = [progress_callback(call, msg_error(call.e)) EXCEPT
                   !.pc = "raised",
                   !.exc = [raised |-> TRUE, wrapped |-> TRUE,
                            path |-> FilePath(call.f), cause |-> call.e]]
    /\ UNCHANGED <<main, w2, plugin, panel>>

NextConvert ==
    \/ ValidateFileExists
    \/ ValidateFormat
    \/ ExtractMetadata
    \/ CreateDitaTopics
    \/ ConvertReturns
    \/ ConvertExcept

SpecConvert == InitConvert /\ [][NextConvert]_vars

(* ------------------------------------------------------------------ *)
(* One can_handle call: video_handler.py                                *)
(* ------------------------------------------------------------------ *)

(* file names: stems with and without dots, each followed by a supported *)
(* extension in lower, upper or mixed case, by another extension, by a   *)
(* bare dot or by nothing                                                *)
CanHandleStems ==
    { <<>>, <<"a">>, <<".">>, <<"a", ".", "b">>, name_a_mp4, <<"m", "p", "4">> }

CanHandleEndings ==
    supported_extensions \cup
    { <<".", "M", "P", "4">>, <<".", "M", "p", "4">>, ext_txt, ext_dita,
      <<".">>, <<>>, <<".", "m", "p">>, <<".", "m", "p", "4", "x">> }

CanHandleFiles ==
    { File(dir_c, st \o e, ex, TRUE, FALSE) :
          st \in CanHandleStems, e \in CanHandleEndings, ex \in BOOLEAN }

InitCanHandle ==
    /\ NoBatch
    /\ w2 = NoRun
    /\ plugin = NoPlugin
    /\ panel = NoPanel
    /\ \E f \in {g \in CanHandleFiles : g.name # <<>>} :
          call = [op |-> "can_handle", pc |-> "entry", f |-> f, result |-> FALSE]

CanHandle ==
    /\ call.op = "can_handle"
    /\ call.pc = "entry"
    /\ call' = [call EXCEPT !.pc = "done", !.result = can_handle(call.f)]
    /\ UNCHANGED <<main, w2, plugin, panel>>

NextCanHandle == CanHandle

SpecCanHandle == InitCanHandle /\ [][NextCanHandle]_vars

(* ------------------------------------------------------------------ *)
(* A batch whose files are served by other handlers of the host registry *)
(* ------------------------------------------------------------------ *)

(* find_handler_for_file may return any registered handler: its result   *)
(* may have a map whose topicrefs carry no href, a map without topicref, *)
(* or neither a topicref nor a topic                                     *)
Shapes == {"full", "no_href", "no_topicref", "empty"}

reshape(ctx, shape) ==
    CASE shape = "full" -> ctx
      [] shape = "no_href" ->
            [ctx EXCEPT !.topicrefs =
                [k \in DOMAIN ctx.topicrefs |-> [ctx.topicrefs[k] EXCEPT !.href = <<>>]]]
      [] shape = "no_topicref" -> [ctx EXCEPT !.topicrefs = <<>>]
      [] shape = "empty" -> [ctx EXCEPT !.topicrefs = <<>>, !.topics = <<>>]

InitForeign ==
    /\ w2 = NoRun
    /\ plugin = NoPlugin
    /\ panel = NoPanel
    /\ call = [op |-> "foreign", shapes |-> <<>>]
    /\ files \in {l \in FileLists(MaxFiles) : Distinct(l)}
    /\ root_folder \in {"None", "R"}
    /\ preserve = TRUE
    /\ pc = "idle"
    /\ idx = 0
    /\ metadata = EmptyDict
    /\ plugin_data = EmptyDict
    /\ topics = EmptyDict
    /\ images = EmptyDict
    /\ videos = EmptyDict
    /\ video_info_map = EmptyDict
    /\ nodes = <<>>
    /\ folder_nodes = EmptyDict
    /\ log = <<>>
    /\ after_queue = <<>>
    /\ ui_enabled = TRUE
    /\ host_ctx = <<>>
    /\ errors = <<>>

(* one loop iteration on the result of such a handler *)
MergeForeign ==
    /\ pc = "loop"
    /\ idx <= Len(files)
    /\ can_handle(files[idx])
    /\ \E r \in {convert_to_dita(files[idx], preserve)} :
          /\ ~r.raised
          /\ \E shape \in Shapes :
                /\ call' = [call EXCEPT !.shapes = Append(@, shape)]
                /\ \E ctx \in {reshape(with_video_info(r.ctx, files[idx]), shape)} :
                      MergeCtx(files[idx], ctx)
    /\ idx' = idx + 1
    /\ UNCHANGED <<w2, plugin, panel, batch, pc, plugin_data, after_queue, ui>>

NextForeign ==
    \/ RunBatchConversion
    \/ ConvertManyBegin
    \/ SkipFile
    \/ MergeForeign
    \/ ConversionFails
    \/ ConvertManyReturn
    \/ OnConversionSuccess
    \/ Fail

SpecForeign == InitForeign /\ [][NextForeign]_vars

(* ------------------------------------------------------------------ *)
(* One _generate_topic_id call: dita_builder.py                         *)
(* ------------------------------------------------------------------ *)

(* a stem of MaxIdLen - 4 characters that starts with a digit: with the  *)
(* "video-" prefix it is cut in the middle                               *)
LongDigitStem == <<"1">> \o [k \in 1..(MaxIdLen - 7) |-> "a"] \o <<"-", "b">>

(* stems with leading, trailing and repeated separators, digits first,   *)
(* characters that are dropped, and stems around the length limit        *)
TopicIdStems ==
    ContextStems \cup
    { <<"-">>, <<"_">>, <<"_", "a">>, <<" ", "a">>, <<"-", "-", "a">>,
      <<"a", "-", "-">>, <<"1">>, <<"4", "2">>, <<"1", "-", "a">>,
      <<"-", "1">>, <<"!", "a">>, <<"!", "-", "a">>, <<"a", "-", "!", "-", "b">>,
      <<"M", "P", "4">>, <<"a", ".", "-", ".", "b">>, LongDigitStem }

TopicIdNames == { st \o e : st \in TopicIdStems, e \in {ext_mp4, ext_webm} }

InitTopicId ==
    /\ NoBatch
    /\ w2 = NoRun
    /\ plugin = NoPlugin
    /\ panel = NoPanel
    /\ \E n \in TopicIdNames :
          call = [op |-> "_generate_topic_id", pc |-> "entry", filename |-> n,
                  id |-> <<>>]

(* the call returns its ID *)
GenerateTopicId ==
    /\ call.op = "_generate_topic_id"
    /\ call.pc = "entry"
    /\ \E r \in {generate_topic_id(call.filename)} :
          /\ ~r.raised
          /\ call' = [call EXCEPT !.pc = "done", !.id = r.id]
    /\ UNCHANGED <<main, w2, plugin, panel>>

(* topic_id[0] on an empty string: IndexError *)
GenerateTopicIdRaises ==
    /\ call.op = "_generate_topic_id"
    /\ call.pc = "entry"
    /\ generate_topic_id(call.filename).raised
    /\ call' = [call EXCEPT !.pc = "raised"]
    /\ UNCHANGED <<main, w2, plugin, panel>>

NextTopicId == GenerateTopicId \/ GenerateTopicIdRaises

SpecTopicId == InitTopicId /\ [][NextTopicId]_vars

(* ------------------------------------------------------------------ *)
(* Preview panel: selecting a video and the timers of _open_vlc         *)
(* ------------------------------------------------------------------ *)

MaxSelects == 3

(* the delays of the three self.after calls, in ms *)
open_retry_ms == 100
restore_delay_ms == 150
first_frame_ms == 200

(* the default of poll_interval_ms *)
poll_interval_ms == 200

(* the step of the clock between two events *)
TickMs == 50

(* the videos of the context, the lengths VLC reports for them (0: not   *)
(* known yet) and the positions the user seeks to                        *)
PanelFiles == {name_a_mp4, name_b_mp4}
MediaLengths == {0, 400}
SeekTargets == {300, 500}

Min2(a, b) == IF a <= b THEN a ELSE b
Max2(a, b) == IF a >= b THEN a ELSE b

NoPlayer ==
    [on |-> FALSE, media |-> <<>>, time |-> 0, playing |-> FALSE, length |-> 0]

InitPanel ==
    /\ NoBatch
    /\ w2 = NoRun
    /\ plugin = NoPlugin
    /\ call = NoCall
    /\ \E rem, map \in BOOLEAN, len \in [PanelFiles -> MediaLengths] :
          panel = [state |-> "open", remember_positions |-> rem, mapped |-> map,
                   lengths |-> len, current_filename |-> <<>>,
                   player |-> NoPlayer, last_pos_ms_by_file |-> EmptyDict,
                   timers |-> <<>>, poll_job |-> 0, selects |-> 0,
                   restored |-> -1]

(* _clamp_time on the player pl *)
clamp_time(pl, ms) ==
    IF pl.length <= 0 THEN Max2(0, ms) ELSE Min2(Max2(0, ms), pl.length)

(* self.after(ms, fn): Tk runs the callbacks in the order they fall due  *)
after(pn, ms, fn, arg) ==
    [pn EXCEPT !.timers = Append(@, [left |-> ms, fn |-> fn, arg |-> arg])]

(* the ids of the pending _poll callbacks *)
PollJobs(pn) ==
    {pn.timers[k].arg : k \in {j \in 1..Len(pn.timers) : pn.timers[j].fn = "_poll"}}

(* the id self.after returns for a new _poll callback *)
new_job(pn) ==
    IF PollJobs(pn) = {} THEN 1
    ELSE 1 + CHOOSE m \in PollJobs(pn) : \A j \in PollJobs(pn) : j <= m

(* _start_poll: nothing if a job is recorded *)
start_poll(pn) ==
    IF pn.poll_job # 0 THEN pn
    ELSE [after(pn, poll_interval_ms, "_poll", new_job(pn))
             EXCEPT !.poll_job = new_job(pn)]

(* _stop_poll: after_cancel of the recorded job *)
stop_poll(pn) ==
    [pn EXCEPT !.timers = SelectSeq(@, LAMBDA t : ~(t.fn = "_poll" /\ t.arg = pn.poll_job)),
               !.poll_job = 0]

(* variant: the poll timer survives the player *)
close_vlc_keeps_poll(pn) == [pn EXCEPT !.player = NoPlayer]

(* _close_vlc: the poll is stopped and the player is dropped; the other  *)
(* pending callbacks stay scheduled                                      *)
close_vlc(pn) == [stop_poll(pn) EXCEPT !.player = NoPlayer]

(* _prepare_first_frame: play, and pause at zero 200 ms later            *)
prepare_first_frame(pn) ==
    after([pn EXCEPT !.player.playing = TRUE], first_frame_ms, "_pause_at_zero", 0)

(* _open_vlc(path): restored is the saved position the call schedules    *)
(* to restore, -1 if none                                                *)
open_vlc(pn, filename) ==
    IF ~pn.mapped
    THEN after([close_vlc(pn) EXCEPT !.restored = -1],
               open_retry_ms, "_open_vlc", filename)
    ELSE LET closed == close_vlc(pn)
             opened == [closed EXCEPT !.player = [on |-> TRUE, media |-> filename,
                                                 time |-> 0, playing |-> FALSE,
                                                 length |-> pn.lengths[filename]]]
             prepared == prepare_first_frame(opened)
         IN IF pn.remember_positions
               /\ pn.current_filename \in DOMAIN pn.last_pos_ms_by_file
            THEN [after(prepared, restore_delay_ms, "_safe_set_time",
                        pn.last_pos_ms_by_file[pn.current_filename])
                     EXCEPT !.restored = pn.last_pos_ms_by_file[pn.current_filename]]
            ELSE [prepared EXCEPT !.restored = -1]

(* _on_select: the position of the previous file is saved, then the      *)
(* selected file is opened                                               *)
OnSelect ==
    /\ panel.state = "open"
    /\ panel.selects < MaxSelects
    /\ \E filename \in PanelFiles :
          \E saved \in {IF panel.player.on /\ panel.current_filename # <<>>
                        THEN [panel EXCEPT !.last_pos_ms_by_file =
                                  Put(@, panel.current_filename, panel.player.time)]
                        ELSE panel} :
             panel' = open_vlc([saved EXCEPT !.current_filename = filename,
                                            !.selects = @ + 1],
                               filename)
    /\ UNCHANGED <<main, w2, call, plugin>>

(* _seek_ms: the user moves the position *)
SeekMs ==
    /\ panel.state = "open"
    /\ panel.player.on
    /\ \E ms \in SeekTargets :
          panel' = [panel EXCEPT !.player.time = clamp_time(panel.player, ms),
                                 !.restored = -1]
    /\ UNCHANGED <<main, w2, call, plugin>>

(* the surface of the panel gets mapped *)
MapSurface ==
    /\ panel.state = "open"
    /\ ~panel.mapped
    /\ panel' = [panel EXCEPT !.mapped = TRUE]
    /\ UNCHANGED <<main, w2, call, plugin>>

(* the first callback that is due *)
DueTimer(pn) ==
    IF \E k \in 1..Len(pn.timers) : pn.timers[k].left = 0
    THEN CHOOSE k \in 1..Len(pn.timers) :
            /\ pn.timers[k].left = 0
            /\ \A j \in 1..(k - 1) : pn.timers[j].left # 0
    ELSE 0

RemoveAt(q, k) == SubSeq(q, 1, k - 1) \o SubSeq(q, k + 1, Len(q))

(* the callback t runs: the deferred _open_vlc, _safe_set_time(pos) or   *)
(* _pause_at_zero, each on whatever player the panel holds by then       *)
run_callback(pn, t) ==
    CASE t.fn = "_open_vlc" -> open_vlc(pn, t.arg)
      [] t.fn = "_safe_set_time" ->
            IF pn.player.on
            THEN [pn EXCEPT !.player.time = clamp_time(pn.player, t.arg)]
            ELSE pn
      [] t.fn = "_pause_at_zero" ->
            IF pn.player.on
            THEN [pn EXCEPT !.player.time = 0, !.player.playing = FALSE]
            ELSE pn
      [] t.fn = "_poll" ->
            [after(pn, poll_interval_ms, "_poll", new_job(pn))
                EXCEPT !.poll_job = new_job(pn)]

TimerFires ==
    /\ panel.state = "open"
    /\ DueTimer(panel) # 0
    /\ \E k \in {DueTimer(panel)} :
          panel' = run_callback([panel EXCEPT !.timers = RemoveAt(@, k)],
                                panel.timers[k])
    /\ UNCHANGED <<main, w2, call, plugin>>

(* time passes while callbacks are pending: a playing video advances     *)
TimePasses ==
    /\ panel.state = "open"
    /\ panel.timers # <<>>
    /\ DueTimer(panel) = 0
    /\ panel' = [panel EXCEPT
                    !.timers = [k \in DOMAIN @ |->
                                   [@[k] EXCEPT !.left = Max2(0, @ - TickMs)]],
                    !.player.time = IF panel.player.playing
                                    THEN clamp_time(panel.player, @ + TickMs)
                                    ELSE @]
    /\ UNCHANGED <<main, w2, call, plugin>>

(* _on_play_pause: toggle play and pause, and start the poll *)
OnPlayPause ==
    /\ panel.state = "open"
    /\ panel.player.on
    /\ panel' = start_poll([panel EXCEPT !.player.playing = ~@, !.restored = -1])
    /\ UNCHANGED <<main, w2, call, plugin>>

(* _on_stop: the player stops and the poll is cancelled *)
OnStop ==
    /\ panel.state = "open"
    /\ panel.player.on
    /\ panel' = stop_poll([panel EXCEPT !.player.playing = FALSE,
                                        !.player.time = 0, !.restored = -1])
    /\ UNCHANGED <<main, w2, call, plugin>>

(* clear_data: the player is closed *)
ClearData ==
    /\ panel.state = "open"
    /\ panel.player.on
    /\ panel' = [close_vlc(panel) EXCEPT !.restored = -1]
    /\ UNCHANGED <<main, w2, call, plugin>>

NextPanel == OnSelect \/ SeekMs \/ MapSurface \/ TimerFires \/ TimePasses

SpecPanel == InitPanel /\ [][NextPanel]_vars

(* the panel with the play, stop and clear controls in use, on videos    *)
(* whose length VLC knows                                                *)
InitPoll ==
    /\ NoBatch
    /\ w2 = NoRun
    /\ plugin = NoPlugin
    /\ call = NoCall
    /\ \E map \in BOOLEAN :
          panel = [state |-> "open", remember_positions |-> FALSE, mapped |-> map,
                   lengths |-> [f \in PanelFiles |->
                                   CHOOSE l \in MediaLengths : l > 0],
                   current_filename |-> <<>>,
                   player |-> NoPlayer, last_pos_ms_by_file |-> EmptyDict,
                   timers |-> <<>>, poll_job |-> 0, selects |-> 0,
                   restored |-> -1]

NextPoll ==
    \/ OnSelect
    \/ MapSurface
    \/ OnPlayPause
    \/ OnStop
    \/ ClearData
    \/ TimerFires
    \/ TimePasses

SpecPoll == InitPoll /\ [][NextPoll]_vars

(* ------------------------------------------------------------------ *)
(* Properties                                                           *)
(* ------------------------------------------------------------------ *)
Success == pc = "returned"

TopicRefs == {n \in 1..Len(nodes) : nodes[n].tag = "topicref"}
TopicHeads == {n \in 1..Len(nodes) : nodes[n].tag = "topichead"}

LogIdx == {log[k].idx : k \in 1..Len(log)}
Handled == {i \in 1..Len(files) : can_handle(files[i])}
Raising == {i \in Handled : convert_to_dita(files[i], preserve).raised}

(* the context the converter returns for input file i *)
CtxOf(i) == with_video_info(convert_to_dita(files[i], preserve).ctx, files[i])

(* some merged file had its topic renamed *)
SomeTopicRenamed ==
    \E k \in 1..Len(log) : log[k].tkeys[1] # CtxOf(log[k].idx).topics[1].name

(* some merged file had its video renamed *)
SomeVideoRenamed ==
    \E k \in 1..Len(log) : log[k].vkeys[1] # CtxOf(log[k].idx).videos[1].name

(* C1: after a successful run every topicref of the combined map has an  *)
(* href 'topics/<k>' with k a key of combined.topics.                    *)
C1_ReferenceIntegrity ==
    Success =>
        \A n \in TopicRefs :
            \E k \in DOMAIN topics : nodes[n].href = topics_dir \o k

C1_Witness ==
    /\ Success
    /\ SomeTopicRenamed
    /\ Cardinality(TopicRefs) >= 2

(* C2: for every merged file exactly one topicref was appended; it       *)
(* targets the final name under which that file's own topic was          *)
(* inserted, a name no other file's topic was inserted under, and its    *)
(* navtitle is the file's stem.                                          *)
C2_RefTargetsOwnTopic ==
    /\ Cardinality(TopicRefs) = Len(log)
    /\ \A k \in 1..Len(log) :
          LET e == log[k]
          IN /\ e.ref \in TopicRefs
             /\ \A j \in 1..Len(log) : j # k => log[j].ref # e.ref
             /\ nodes[e.ref].href = topics_dir \o e.tkeys[1]
             /\ \A j \in 1..Len(log) :
                    j # k => basename(nodes[e.ref].href) \notin
                                 {log[j].tkeys[t] : t \in 1..Len(log[j].tkeys)}
             /\ nodes[e.ref].navtitle = path_stem(files[e.idx].name)

C2_Witness ==
    /\ Success
    /\ Len(log) >= 2
    /\ SomeTopicRenamed

RECURSIVE SumLen(_, _)
SumLen(l, field) ==
    IF l = <<>> THEN 0 ELSE Len(Head(l)[field]) + SumLen(Tail(l), field)

KeySet(e, field) == {e[field][t] : t \in 1..Len(e[field])}

(* C3: after a successful run no insertion has overwritten an entry:     *)
(* each dict has as many entries as the merged files produced, every     *)
(* file's entry is still its own, and no two files share a final topic   *)
(* or media name.                                                        *)
C3_NoOverwrite ==
    Success =>
        /\ Cardinality(DOMAIN topics) = SumLen(log, "tkeys")
        /\ Cardinality(DOMAIN videos) = SumLen(log, "vkeys")
        /\ Cardinality(DOMAIN images) = SumLen(log, "ikeys")
        /\ \A k \in 1..Len(log) :
              /\ topics[log[k].tkeys[1]] = CtxOf(log[k].idx).topics[1].el
              /\ videos[log[k].vkeys[1]] = FilePath(files[log[k].idx])
        /\ \A j, k \in 1..Len(log) :
              j # k => /\ KeySet(log[j], "tkeys") \cap KeySet(log[k], "tkeys") = {}
                       /\ KeySet(log[j], "vkeys") \cap KeySet(log[k], "vkeys") = {}

C3_Witness ==
    /\ Success
    /\ SomeTopicRenamed
    /\ SomeVideoRenamed
    /\ Len(log) = 3

(* two merged files whose converter results carry the same video name *)
SameVideoName ==
    \E j, k \in 1..Len(log) :
        /\ j # k
        /\ CtxOf(log[j].idx).videos[1].name = CtxOf(log[k].idx).videos[1].name

(* C4: when two input files produce the same media filename, the         *)
(* combined media map holds an entry for each and the topic of every     *)
(* merged file references the final name of that file's own video.       *)
C4_TopicReferencesRenamedMedia ==
    (Success /\ SameVideoName) =>
        /\ Cardinality(DOMAIN videos) = Len(log)
        /\ \A k \in 1..Len(log) :
              topics[log[k].tkeys[1]].data = media_dir \o log[k].vkeys[1]

(* C5: after a successful run the media filename in the data attribute   *)
(* of every topic of combined.topics is a key of the combined media.     *)
C5_MediaReferencesResolve ==
    Success =>
        \A k \in DOMAIN topics :
            basename(topics[k].data) \in (DOMAIN videos) \cup (DOMAIN images)

C5_Witness ==
    /\ Success
    /\ SomeVideoRenamed
    /\ Cardinality(DOMAIN topics) >= 2

RECURSIVE Prefixes(_)
Prefixes(segs) ==
    IF segs = <<>> THEN {} ELSE {segs} \cup Prefixes(Prefix(segs, Len(segs) - 1))

(* the chain of folder labels from the map root down to node n *)
RECURSIVE PathOf(_)
PathOf(n) ==
    IF n = 0 THEN <<>> ELSE Append(PathOf(nodes[n].parent), nodes[n].navtitle)

(* directory paths, with their prefixes, of the files merged so far *)
RequiredDirs == UNION {Prefixes(files[i].dir) : i \in LogIdx}

(* C6: a file without handler does not fail the batch and contributes    *)
(* nothing; the files after it are processed, so after a successful run  *)
(* topics, media and topicrefs each number the files that had a handler  *)
(* and folders exist only for the directories of those files.            *)
C6_SkipUnsupported ==
    /\ pc = "raised" => idx \in Handled
    /\ LogIdx \subseteq Handled
    /\ Success =>
          /\ LogIdx = Handled
          /\ Cardinality(DOMAIN topics) = Cardinality(Handled)
          /\ Cardinality(DOMAIN videos) = Cardinality(Handled)
          /\ Cardinality(TopicRefs) = Cardinality(Handled)
          /\ {PathOf(n) : n \in TopicHeads} \subseteq
                 UNION {Prefixes(files[i].dir) : i \in Handled}

C6_Witness ==
    /\ Success
    /\ root_folder = "R"
    /\ Len(files) = 3
    /\ ~can_handle(files[2])
    /\ LogIdx = {1, 3}

(* C7: when the conversion of a handled file raises, the batch stops at  *)
(* the first such file: no later file is merged, _convert_many does not  *)
(* return and on_conversion_success is neither scheduled nor run.        *)
C7_AbortOnFailure ==
    Raising # {} =>
        LET first == CHOOSE i \in Raising : \A j \in Raising : i <= j
        IN /\ idx <= first
           /\ \A i \in LogIdx : i < first
           /\ pc # "returned"
           /\ host_ctx = <<>>
           /\ \A k \in 1..Len(after_queue) :
                  after_queue[k].fn # "on_conversion_success"
           /\ pc = "raised" => idx = first

C7_Witness ==
    /\ pc = "raised"
    /\ Len(files) = 3
    /\ idx = 2
    /\ Len(log) = 1
    /\ Len(errors) = 1

(* C8: in the files flow (root_folder is None) after a successful run    *)
(* the map root's children are topicrefs only, one per merged file, in   *)
(* input order, and the map has no folder node.                          *)
C8_FlatMode ==
    (Success /\ root_folder = "None") =>
        /\ TopicHeads = {}
        /\ Len(nodes) = Cardinality(Handled)
        /\ \A n \in 1..Len(nodes) :
              /\ nodes[n].tag = "topicref"
              /\ nodes[n].parent = 0
              /\ log[n].ref = n
              /\ nodes[n].navtitle = path_stem(files[log[n].idx].name)
        /\ \A m, n \in 1..Len(nodes) : m < n => log[m].idx < log[n].idx

C8_Witness ==
    /\ Success
    /\ root_folder = "None"
    /\ Len(nodes) = 3
    /\ \E i \in 1..Len(files) : files[i].dir # <<>>

(* C9: in the folder flow the map holds exactly one folder node for each *)
(* relative directory path (and each prefix of it) of a merged file, and *)
(* no parent has two folder children with the same label.                *)
C9_OneFolderPerPath ==
    root_folder = "R" =>
        /\ {PathOf(n) : n \in TopicHeads} = RequiredDirs
        /\ \A m, n \in TopicHeads : m # n => PathOf(m) # PathOf(n)
        /\ \A m, n \in TopicHeads :
              (m # n /\ nodes[m].parent = nodes[n].parent)
                  => nodes[m].navtitle # nodes[n].navtitle

C9_Witness ==
    /\ root_folder = "R"
    /\ Success
    /\ Cardinality(TopicHeads) = 2
    /\ Cardinality({i \in LogIdx : files[i].dir # <<>>}) = 3

(* C10: in the folder flow the topicref of every merged file is a child  *)
(* of the node whose chain of labels from the map root is the file's     *)
(* directory path relative to the root folder.                           *)
C10_DirectoryMirroring ==
    root_folder = "R" =>
        \A k \in 1..Len(log) :
            PathOf(nodes[log[k].ref].parent) = files[log[k].idx].dir

C10_Witness ==
    /\ root_folder = "R"
    /\ Success
    /\ \E j, k \in 1..Len(log) :
          /\ Len(files[log[j].idx].dir) = 2
          /\ files[log[k].idx].dir = <<>>

IsPrefixOf(pre, segs) == Len(pre) <= Len(segs) /\ Prefix(segs, Len(pre)) = pre

(* the input index that positions node n among its siblings: the file of *)
(* a topicref, the first merged file in or below a folder                *)
OrderKey(n) ==
    IF nodes[n].tag = "topicref"
    THEN LET k == CHOOSE k \in 1..Len(log) : log[k].ref = n IN log[k].idx
    ELSE LET under == {i \in LogIdx : IsPrefixOf(PathOf(n), files[i].dir)}
         IN CHOOSE i \in under : \A j \in under : i <= j

(* C11: under every node the children are in the order in which input    *)
(* files first required them, and files are merged in input order.       *)
C11_InputOrder ==
    /\ \A j, k \in 1..Len(log) : j < k => log[j].idx < log[k].idx
    /\ \A k \in 1..Len(log) : log[k].idx < idx
    /\ \A p \in {0} \cup TopicHeads :
          LET ch == children(nodes, p)
          IN \A a, b \in 1..Len(ch) : a < b => OrderKey(ch[a]) < OrderKey(ch[b])

C11_Witness ==
    /\ Success
    /\ root_folder = "R"
    /\ Len(log) = 3
    /\ LET ch == children(nodes, 0)
       IN /\ Len(ch) = 2
          /\ nodes[ch[1]].tag = "topichead"
          /\ nodes[ch[2]].tag = "topicref"
          /\ Len(children(nodes, ch[1])) = 2

(* C13: in the folder flow the topicref of a file directly under the     *)
(* root folder is a child of the map root, and no folder node with an    *)
(* empty or '.' label is created or cached.                              *)
C13_RootFilesUnderMapRoot ==
    root_folder = "R" =>
        /\ \A k \in 1..Len(log) :
              files[log[k].idx].dir = <<>> => nodes[log[k].ref].parent = 0
        /\ \A n \in TopicHeads : nodes[n].navtitle \notin {<<>>, <<".">>}
        /\ \A key \in DOMAIN folder_nodes : key \notin {<<>>, <<".">>}

C13_Witness ==
    /\ root_folder = "R"
    /\ Success
    /\ \E k \in 1..Len(log) : files[log[k].idx].dir = <<>>
    /\ TopicHeads # {}

(* C16: the video_info_map entry of every merged file that carries one   *)
(* is keyed by the final name under which that file's video was stored. *)
C16_InfoKeyedLikeMedia ==
    \A k \in 1..Len(log) :
        log[k].mkeys # <<>> => log[k].mkeys[1] = log[k].vkeys[1]

(* C17: manual_title, revision_date and the _source_plugin tag are set   *)
(* when _convert_many starts, before any file is merged, and no loop     *)
(* iteration changes them.                                               *)
C17_DefaultsSetOnce ==
    [][/\ (pc = "started" /\ pc' = "loop") =>
              /\ log' = <<>>
              /\ metadata'.manual_title = "VIDEO-LIBRARY"
              /\ metadata'.revision_date = "today"
              /\ plugin_data'._source_plugin = plugin_id
       /\ pc = "loop" =>
              /\ metadata' = metadata
              /\ plugin_data' = plugin_data]_vars

C17_Witness ==
    /\ Success
    /\ Len(log) >= 2
    /\ metadata.manual_title = "VIDEO-LIBRARY"
    /\ plugin_data._source_plugin = plugin_id
    /\ \E k \in 1..Len(log) : CtxOf(log[k].idx).metadata.title # <<"a">>

(* completion callbacks scheduled so far: pending, or already run *)
QueuedFn(fn) == Cardinality({k \in 1..Len(after_queue) : after_queue[k].fn = fn})
SuccessScheduled == QueuedFn("on_conversion_success") + Len(host_ctx)
FailScheduled == QueuedFn("_fail") + Len(errors)

ScheduledProjects ==
    {after_queue[k].ctx :
        k \in {j \in 1..Len(after_queue) : after_queue[j].fn = "on_conversion_success"}}
    \cup {host_ctx[k] : k \in 1..Len(host_ctx)}

(* C18: a started batch eventually has exactly one completion callback   *)
(* scheduled, never more: on_conversion_success with the complete        *)
(* project, after the last file was merged, when every handled file      *)
(* converts, and _fail otherwise.                                        *)
C18_OneCompletionCallback ==
    /\ [](SuccessScheduled + FailScheduled <= 1)
    /\ [](SuccessScheduled > 0 =>
              /\ pc = "returned"
              /\ Raising = {}
              /\ LogIdx = Handled
              /\ ScheduledProjects = {Project})
    /\ [](FailScheduled > 0 => (pc = "raised" /\ Raising # {}))
    /\ (pc = "started" ~> (SuccessScheduled + FailScheduled = 1))

C18_Witness ==
    /\ host_ctx # <<>>
    /\ Len(log) = 3
    /\ after_queue = <<>>

(* C14: _dedup_name returns a free name unchanged; for a taken name, with *)
(* base the part before the last '.' and ext the part from the last '.'  *)
(* on (empty without a '.'), it returns base-i+ext for the smallest      *)
(* i >= 2 whose candidate is free; the returned name is never a key of   *)
(* used.                                                                 *)
C14_DedupResult ==
    (call.op = "_dedup_name" /\ call.pc = "done") =>
        LET used == DOMAIN call.used
            d == RFind(call.name, ".")
            base == IF d = 0 THEN call.name ELSE Prefix(call.name, d - 1)
            ext == IF d = 0 THEN <<>> ELSE Suffix(call.name, d)
        IN /\ call.name \notin used => call.result = call.name
           /\ call.name \in used =>
                 \E i \in 2..(Cardinality(used) + 2) :
                     /\ call.result = candidate(base, i, ext)
                     /\ \A j \in 2..(i - 1) : candidate(base, j, ext) \in used
           /\ call.result \notin used

(* C15: _dedup_name terminates for every name and key set, after trying  *)
(* at most |used| candidates.                                            *)
C15_DedupTerminates ==
    /\ [](call.op = "_dedup_name" => call.tries <= Cardinality(DOMAIN call.used))
    /\ <>(call.op = "_dedup_name" /\ call.pc = "done")

C15_Witness ==
    /\ call.op = "_dedup_name"
    /\ call.pc = "done"
    /\ call.tries = Cardinality(DOMAIN call.used)
    /\ call.tries = 3

(* C20: a context returned by create_dita_context holds exactly one      *)
(* topic and one video, its map holds exactly one topicref, whose href   *)
(* is topics/<key of the topic>, and the data attribute of the topic's   *)
(* object names the key of the video.                                    *)
C20_ContextShape ==
    (call.op = "create_dita_context" /\ call.pc = "done") =>
        /\ Len(call.ctx.topics) = 1
        /\ Len(call.ctx.videos) = 1
        /\ Len(call.ctx.topicrefs) = 1
        /\ call.ctx.topicrefs[1].href = topics_dir \o call.ctx.topics[1].name
        /\ call.ctx.topics[1].el.data = media_dir \o call.ctx.videos[1].name

C20_Witness ==
    /\ call.op = "create_dita_context"
    /\ call.pc = "done"
    /\ ~call.preserve
    /\ call.ctx.videos[1].name # call.f.name
    /\ Len(call.ctx.topics[1].el.id) = MaxIdLen - 1

C19_RunsIsolated ==
    LET r1 == run_alone(BeginState, files, root_folder, preserve, 1)
        r2 == run_alone(BeginState, w2.files, w2.root_folder, preserve, 1)
    IN /\ pc = "returned" =>
              /\ ~r1.raised
              /\ Project = project_of(r1.st, [_source_plugin |-> plugin_id])
       /\ pc = "raised" => r1.raised
       /\ w2.pc = "returned" =>
              /\ ~r2.raised
              /\ project_of(w2.st, w2.plugin_data)
                     = project_of(r2.st, [_source_plugin |-> plugin_id])
       /\ w2.pc = "raised" => r2.raised

C19_Witness ==
    /\ pc = "returned"
    /\ w2.pc = "returned"
    /\ w2.files # files
    /\ folder_nodes # EmptyDict
    /\ w2.st.folder_nodes # EmptyDict
    /\ Len(after_queue) = 2
    /\ after_queue[1].ctx = project_of(w2.st, w2.plugin_data)
    /\ after_queue[2].ctx = Project
    /\ after_queue[1].ctx # after_queue[2].ctx

(* C21: converting a file larger than max_file_size_mb fails, so a batch *)
(* with an oversized file is aborted: no oversized file is ever merged   *)
(* and no batch that holds a handled one returns a project.              *)
C21_OversizedAborts ==
    /\ \A k \in 1..Len(log) : ~validate_video_constraints(files[log[k].idx]).raised
    /\ pc = "returned" =>
           \A k \in Handled : ~validate_video_constraints(files[k]).raised

TakenBefore(k, field) ==
    [n \in UNION {{log[j][field][m] : m \in 1..Len(log[j][field])} : j \in 1..(k - 1)}
        |-> TRUE]

(* C23: each namespace is deduplicated on its own: the final name of a   *)
(* topic depends only on the topic names merged before it, that of a     *)
(* video only on the video names, and the key of a video's metadata only *)
(* on the metadata keys.                                                 *)
C23_NamespacesIndependent ==
    \A k \in 1..Len(log) :
        /\ log[k].tkeys[1] =
              dedup_name(CtxOf(log[k].idx).topics[1].name, TakenBefore(k, "tkeys"))
        /\ log[k].vkeys[1] =
              dedup_name(CtxOf(log[k].idx).videos[1].name, TakenBefore(k, "vkeys"))
        /\ log[k].mkeys # <<>> =>
              log[k].mkeys[1] =
                 dedup_name(CtxOf(log[k].idx).video_info_map[1].k,
                            TakenBefore(k, "mkeys"))

(* a topic renamed while its video keeps its name, and a video renamed   *)
(* while its metadata key is not                                         *)
C23_Witness ==
    /\ \E k \in 1..Len(log) :
          /\ log[k].tkeys[1] # CtxOf(log[k].idx).topics[1].name
          /\ log[k].vkeys[1] = CtxOf(log[k].idx).videos[1].name
    /\ \E k \in 1..Len(log) :
          /\ log[k].mkeys # <<>>
          /\ log[k].vkeys[1] # CtxOf(log[k].idx).videos[1].name
          /\ log[k].mkeys[1] = CtxOf(log[k].idx).video_info_map[1].k

(* the step of the call that fails on its file, "none" if none does      *)
FailingStep(c) ==
    IF ~c.f.exists THEN "exists"
    ELSE IF ~c.f.readable THEN "validate"
    ELSE IF c.extract_raises THEN "extract"
    ELSE IF generate_topic_id(c.f.name).raised THEN "build"
    ELSE "none"

ConvertDone == call.op = "convert_to_dita" /\ call.pc \in {"returned", "raised"}

ProgressOrder == <<msg_validating, msg_extracting, msg_creating, msg_completed>>

EndsIn(name, e) ==
    /\ Len(name) > Len(e)
    /\ LowerStr(SubSeq(name, Len(name) - Len(e) + 1, Len(name))) = e

ForeignCtx(k) == reshape(CtxOf(log[k].idx), call.shapes[k])

(* C27: a result whose map has no topicref with an href but which has a  *)
(* topic gets a reference to its first topic under the final name of     *)
(* that topic; a result with neither gets no reference node and no       *)
(* folder node, while its videos are merged.                             *)
C27_FirstTopicFallback ==
    /\ [](call.op = "foreign" =>
            \A k \in 1..Len(log) :
               /\ call.shapes[k] \in {"no_href", "no_topicref"} =>
                     /\ log[k].ref # 0
                     /\ nodes[log[k].ref].tag = "topicref"
                     /\ nodes[log[k].ref].href = topics_dir \o log[k].tkeys[1]
               /\ call.shapes[k] = "empty" =>
                     /\ log[k].ref = 0
                     /\ log[k].vkeys # <<>>
                     /\ log[k].vkeys[1] \in DOMAIN videos)
    /\ [][(call.op = "foreign" /\ Len(call'.shapes) > Len(call.shapes)
             /\ call'.shapes[Len(call'.shapes)] = "empty")
          => (nodes' = nodes /\ folder_nodes' = folder_nodes)]_vars

(* a fallback reference to a renamed topic, and an empty result for a    *)
(* file in a folder that got no folder node                              *)
C27_Witness ==
    /\ call.op = "foreign"
    /\ pc = "returned"
    /\ root_folder = "R"
    /\ \E k \in 1..Len(log) :
          /\ call.shapes[k] \in {"no_href", "no_topicref"}
          /\ log[k].tkeys[1] # ForeignCtx(k).topics[1].name
    /\ \E k \in 1..Len(log) :
          /\ call.shapes[k] = "empty"
          /\ files[log[k].idx].dir # <<>>
          /\ target_rel_key(files[log[k].idx], root_folder) \notin DOMAIN folder_nodes

(* C28: _generate_topic_id never raises and returns a non-empty ID that  *)
(* starts with a letter and has at most 50 characters.                   *)
C28_TopicIdWellFormed ==
    call.op = "_generate_topic_id" =>
        /\ call.pc # "raised"
        /\ call.pc = "done" =>
              /\ call.id # <<>>
              /\ isalpha(call.id[1])
              /\ Len(call.id) <= 50

(* C29: the ID returned by _generate_topic_id is made of lowercase       *)
(* letters, digits and single hyphens: no two hyphens in a row, none at  *)
(* the start or the end.                                                 *)
C29_TopicIdCharacters ==
    (call.op = "_generate_topic_id" /\ call.pc = "done") =>
        /\ \A k \in 1..Len(call.id) :
              \/ call.id[k] = "-"
              \/ isalnum(call.id[k]) /\ Lower(call.id[k]) = call.id[k]
        /\ ~HasDoubleHyphen(call.id)
        /\ call.id # <<>> => (call.id[1] # "-" /\ call.id[Len(call.id)] # "-")

(* C30: with remember_positions on, once every callback scheduled by     *)
(* _open_vlc has run, a file opened with a saved position p stands at p  *)
(* clamped to the media length, not at 0.                                *)
C30_PositionRestored ==
    (/\ panel.state = "open"
     /\ panel.remember_positions
     /\ panel.player.on
     /\ panel.restored >= 0
     /\ panel.timers = <<>>)
    => panel.player.time = clamp_time(panel.player, panel.restored)

(* every entry of the dict old is in the dict new, with its value        *)
Kept(old, new) ==
    \A k \in DOMAIN old : k \in DOMAIN new /\ new[k] = old[k]

(* C31: no step of a run removes or changes what the project already     *)
(* holds: every entry of topics, images, videos and video_info_map keeps *)
(* its key and value, every node of the map keeps its place, label,      *)
(* parent and target, and every entry of the folder cache stays.         *)
C31_MergeOnlyAdds ==
    [][/\ Kept(topics, topics')
       /\ Kept(images, images')
       /\ Kept(videos, videos')
       /\ Kept(video_info_map, video_info_map')
       /\ Len(nodes') >= Len(nodes)
       /\ SubSeq(nodes', 1, Len(nodes)) = nodes
       /\ \A p \in 0..Len(nodes) :
             \E n \in 0..Len(children(nodes', p)) :
                children(nodes, p) = SubSeq(children(nodes', p), 1, n)
       /\ Kept(folder_nodes, folder_nodes')]_vars

(* three files merged, two of them renamed, into a map with folders      *)
C31_Witness ==
    /\ pc = "returned"
    /\ Len(log) = 3
    /\ Cardinality(DOMAIN videos) = 3
    /\ Cardinality(DOMAIN video_info_map) >= 2
    /\ Cardinality(DOMAIN folder_nodes) >= 2
    /\ \E k \in 1..Len(log) :
          log[k].vkeys[1] # CtxOf(log[k].idx).videos[1].name

(* node a is n or lies above n in the map *)
RECURSIVE IsAncestor(_, _)
IsAncestor(a, n) ==
    IF n = 0 THEN FALSE
    ELSE nodes[n].parent = a \/ IsAncestor(a, nodes[n].parent)

(* C32: in the folder flow, after every file, each folder node of the    *)
(* map has a reference node below it: a skipped file and a file without  *)
(* a reference leave no folder node behind.                              *)
C32_NoEmptyFolder ==
    root_folder # "None" =>
        \A h \in TopicHeads : \E t \in TopicRefs : IsAncestor(h, t)

(* a folder flow that returned with a folder in its map, after a skipped *)
(* file and a file without reference, each in a folder of its own        *)
C32_Witness ==
    /\ call.op = "foreign"
    /\ pc = "returned"
    /\ root_folder = "R"
    /\ TopicHeads # {}
    /\ \E i \in 1..Len(files) :
          /\ ~can_handle(files[i])
          /\ files[i].dir # <<>>
          /\ target_rel_key(files[i], root_folder) \notin DOMAIN folder_nodes
    /\ \E k \in 1..Len(log) :
          /\ log[k].ref = 0
          /\ files[log[k].idx].dir # <<>>
          /\ target_rel_key(files[log[k].idx], root_folder) \notin DOMAIN folder_nodes

(* the segments of a cache key and the key of its parent folder *)
KeyParts(key) == SplitNonEmpty(key, "/", <<>>)
ParentKey(key) == Join(SubSeq(KeyParts(key), 1, Len(KeyParts(key)) - 1), "/")

(* C33: at every step the folder cache matches the map: with a key its   *)
(* parent prefix is a key; the cached node is a folder node of the map,  *)
(* labelled with the last segment of the key and a child of the node     *)
(* cached under the parent prefix (of the map root for one segment);     *)
(* every folder node of the map is cached under exactly one key.         *)
C33_CacheMatchesTree ==
    /\ \A key \in DOMAIN folder_nodes :
          /\ KeyParts(key) # <<>>
          /\ Join(KeyParts(key), "/") = key
          /\ Len(KeyParts(key)) > 1 => ParentKey(key) \in DOMAIN folder_nodes
          /\ folder_nodes[key] \in TopicHeads
          /\ nodes[folder_nodes[key]].navtitle = KeyParts(key)[Len(KeyParts(key))]
          /\ nodes[folder_nodes[key]].parent =
                IF Len(KeyParts(key)) > 1 THEN folder_nodes[ParentKey(key)] ELSE 0
    /\ \A h \in TopicHeads :
          Cardinality({key \in DOMAIN folder_nodes : folder_nodes[key] = h}) = 1

(* a cache with a nested folder next to two top-level folders            *)
C33_Witness ==
    /\ Cardinality(DOMAIN folder_nodes) = 3
    /\ \E key \in DOMAIN folder_nodes : Len(KeyParts(key)) = 2
    /\ Cardinality(TopicHeads) = 3

(* C34: at most one _poll callback is pending at any time, it is the one *)
(* recorded in _poll_job, and none is pending while no player is open.   *)
C34_OnePollTimer ==
    panel.state = "open" =>
        /\ Cardinality({k \in 1..Len(panel.timers) : panel.timers[k].fn = "_poll"}) <= 1
        /\ PollJobs(panel) = IF panel.poll_job = 0 THEN {} ELSE {panel.poll_job}
        /\ ~panel.player.on => PollJobs(panel) = {}

(* a poll that was started, cancelled by a stop or a close, and started  *)
(* again on the third player                                             *)
C34_Witness ==
    /\ panel.state = "open"
    /\ panel.selects = 3
    /\ panel.player.on
    /\ panel.player.playing
    /\ panel.poll_job # 0
    /\ \E k \in 1..Len(panel.timers) :
          panel.timers[k].fn = "_poll" /\ panel.timers[k].left < poll_interval_ms

(* C35: whenever a player is open, the media it has loaded is the file   *)
(* of the current selection.                                             *)
C35_PlayerShowsSelection ==
    (panel.state = "open" /\ panel.player.on) =>
        panel.player.media = panel.current_filename

====
